---- MODULE Spec2Model ----
(***************************************************************************)
(* Replay engine of the sorting visualizer: the recorder-instrumented sort *)
(* functions, the Algorithm Replay (frame_at), and the EngineController    *)
(* with its cancellable worker thread and the shared published state.      *)
(***************************************************************************)
EXTENDS Integers, Sequences, FiniteSets, TLC

(* ---- bounds of the model ---------------------------------------------- *)
\* largest number_of_values a start_run is given
MaxValues == 2
\* longest selected_algorithms list a start_run is given
MaxAlgorithms == 2
\* number of start_run calls (worker threads ever spawned)
MaxRuns == 2

\* largest number_of_values of the runs whose playback is followed tick by tick
MaxLockstepValues == 3

\* largest frame index frame_at is asked for outside a playback
MaxFrameIndex == 6

\* longest input a recorder is run on by itself, and the largest value in it
MaxRecordLength == 6
MaxRecordValue == 2

RunIds == 1..MaxRuns

(* ---- helpers on 0-indexed vectors (Vec<u32>) -------------------------- *)
\* values[i] as an expression: defined for i < len only (the index panics
\* otherwise, and no value comes back)
At(values, i) == values[i + 1]

\* the thread panicked in a write to values: what is left holds no u32
RECURSIVE PanickedOfLength(_)
PanickedOfLength(length) ==
    IF length = 0 THEN << >> ELSE Append(PanickedOfLength(length - 1), -1)
Panicked(values) == PanickedOfLength(Len(values))
IsPanicked(values) == \E k \in 1..Len(values) : values[k] < 0
InBounds(values, i) == i \in 0..(Len(values) - 1)

\* values[i] = v
SetAt(values, i, v) ==
    IF IsPanicked(values) THEN values
    ELSE IF InBounds(values, i) THEN [values EXCEPT ![i + 1] = v]
    ELSE Panicked(values)
\* values.swap(i, j)
SwapAt(values, i, j) ==
    IF IsPanicked(values) THEN values
    ELSE IF InBounds(values, i) /\ InBounds(values, j)
    THEN [values EXCEPT ![i + 1] = values[j + 1], ![j + 1] = values[i + 1]]
    ELSE Panicked(values)
Last(frames) == frames[Len(frames)]

\* a - b on usize: defined for a >= b only ("attempt to subtract with overflow"
\* otherwise; what comes back is no integer and cannot be used as one)
usize_sub(a, b) == IF a >= b THEN a - b ELSE "overflow"

\* usize::saturating_sub
saturating_sub(a, b) == IF a >= b THEN a - b ELSE 0

\* the trailing frame pushed whether or not it repeats the last one
PushAlways(frames, values) == Append(frames, values)
\* the trailing rule shared by the recorders:
\* if frames.last() != Some(values) { frames.push(values) }
PushIfNotLast(frames, values) ==
    IF Len(frames) = 0 \/ Last(frames) # values
    THEN Append(frames, values)
    ELSE frames

(* ---- bubble_sort.rs --------------------------------------------------- *)
\* one pass of: for left_index in 0..length.saturating_sub(1)
RECURSIVE BubblePass(_, _, _, _)
BubblePass(values, frames, left_index, is_swapped) ==
    IF left_index >= Len(values) - 1
    THEN [values |-> values, frames |-> frames, is_swapped |-> is_swapped]
    ELSE IF At(values, left_index) > At(values, left_index + 1)
         THEN LET swapped == SwapAt(values, left_index, left_index + 1)
              IN BubblePass(swapped, Append(frames, swapped), left_index + 1, TRUE)
         ELSE BubblePass(values, frames, left_index + 1, is_swapped)

\* the loop leaving after its first pass
BubbleSinglePass(values, frames) == BubblePass(values, frames, 0, FALSE)
\* while is_swapped { is_swapped = false; <pass> }
RECURSIVE BubbleLoop(_, _)
BubbleLoop(values, frames) ==
    LET pass == BubblePass(values, frames, 0, FALSE)
    IN IF pass.is_swapped
       THEN BubbleLoop(pass.values, pass.frames)
       ELSE pass

bubble_sort_with_recording(initial_values) ==
    IF Len(initial_values) = 0
    THEN << >>
    ELSE LET done == BubbleLoop(initial_values, << initial_values >>)
         IN PushIfNotLast(done.frames, done.values)

(* ---- insertion_sort.rs ------------------------------------------------ *)
\* while insert_index > 0 && values[insert_index - 1] > current_value
RECURSIVE InsertionShift(_, _, _, _)
InsertionShift(values, frames, insert_index, current_value) ==
    IF insert_index > 0 /\ At(values, usize_sub(insert_index, 1)) > current_value
    THEN LET shifted == SetAt(values, insert_index, At(values, usize_sub(insert_index, 1)))
         IN InsertionShift(shifted, Append(frames, shifted),
                           usize_sub(insert_index, 1), current_value)
    ELSE [values |-> values, frames |-> frames, insert_index |-> insert_index]

\* for unsorted_index in 1..length
RECURSIVE InsertionOuter(_, _, _)
InsertionOuter(values, frames, unsorted_index) ==
    IF unsorted_index >= Len(values)
    THEN [values |-> values, frames |-> frames]
    ELSE LET current_value == At(values, unsorted_index)
             shift == InsertionShift(values, frames, unsorted_index, current_value)
             placed == SetAt(shift.values, shift.insert_index, current_value)
         IN InsertionOuter(placed, Append(shift.frames, placed), unsorted_index + 1)

insertion_sort_with_recording(initial_values) ==
    IF Len(initial_values) = 0
    THEN << >>
    ELSE LET done == InsertionOuter(initial_values, << initial_values >>, 1)
         IN PushIfNotLast(done.frames, done.values)

(* ---- selection_sort.rs ------------------------------------------------ *)
\* for candidate_index in (sorted_boundary_index + 1)..length
RECURSIVE SelectionFindMinimum(_, _, _)
SelectionFindMinimum(values, candidate_index, index_of_minimum) ==
    IF candidate_index >= Len(values)
    THEN index_of_minimum
    ELSE SelectionFindMinimum(
             values, candidate_index + 1,
             IF At(values, candidate_index) < At(values, index_of_minimum)
             THEN candidate_index ELSE index_of_minimum)

\* for sorted_boundary_index in 0..length
RECURSIVE SelectionOuter(_, _, _)
SelectionOuter(values, frames, sorted_boundary_index) ==
    IF sorted_boundary_index >= Len(values)
    THEN [values |-> values, frames |-> frames]
    ELSE LET index_of_minimum ==
                 SelectionFindMinimum(values, sorted_boundary_index + 1,
                                      sorted_boundary_index)
         IN IF index_of_minimum # sorted_boundary_index
            THEN LET swapped == SwapAt(values, sorted_boundary_index, index_of_minimum)
                 IN SelectionOuter(swapped, Append(frames, swapped),
                                   sorted_boundary_index + 1)
            ELSE SelectionOuter(values, frames, sorted_boundary_index + 1)

selection_sort_with_recording(initial_values) ==
    IF Len(initial_values) = 0
    THEN << >>
    ELSE LET done == SelectionOuter(initial_values, << initial_values >>, 0)
         IN PushIfNotLast(done.frames, done.values)

(* ---- gnome_sort.rs ----------------------------------------------------- *)
\* while current_index < length
RECURSIVE GnomeLoop(_, _, _, _)
GnomeLoop(values, frames, current_index, next_index) ==
    IF current_index >= Len(values)
    THEN [values |-> values, frames |-> frames]
    ELSE IF At(values, usize_sub(current_index, 1)) <= At(values, current_index)
         THEN GnomeLoop(values, frames, next_index, next_index + 1)
         ELSE LET swapped == SwapAt(values, usize_sub(current_index, 1), current_index)
              IN IF current_index > 1
                 THEN GnomeLoop(swapped, Append(frames, swapped),
                                usize_sub(current_index, 1), next_index)
                 ELSE GnomeLoop(swapped, Append(frames, swapped),
                                next_index, next_index + 1)

gnome_sort_with_recording(initial_values) ==
    IF Len(initial_values) = 0
    THEN << >>
    ELSE IF Len(initial_values) <= 1
         THEN PushIfNotLast(<< initial_values >>, initial_values)
         ELSE LET done == GnomeLoop(initial_values, << initial_values >>, 1, 2)
              IN PushIfNotLast(done.frames, done.values)

(* ---- cocktail_sort.rs -------------------------------------------------- *)
\* forward pass: for left_index in start_index..end_index
RECURSIVE CocktailForward(_, _, _, _, _)
CocktailForward(values, frames, left_index, end_index, has_swapped_in_pass) ==
    IF left_index >= end_index
    THEN [values |-> values, frames |-> frames,
          has_swapped_in_pass |-> has_swapped_in_pass]
    ELSE IF At(values, left_index) > At(values, left_index + 1)
         THEN LET swapped == SwapAt(values, left_index, left_index + 1)
              IN CocktailForward(swapped, Append(frames, swapped),
                                 left_index + 1, end_index, TRUE)
         ELSE CocktailForward(values, frames, left_index + 1, end_index,
                              has_swapped_in_pass)

\* backward pass: while right_index > start_index
RECURSIVE CocktailBackward(_, _, _, _, _)
CocktailBackward(values, frames, right_index, start_index, has_swapped_in_pass) ==
    IF right_index <= start_index
    THEN [values |-> values, frames |-> frames,
          has_swapped_in_pass |-> has_swapped_in_pass]
    ELSE LET is_inverted == At(values, usize_sub(right_index, 1)) > At(values, right_index)
             swapped == IF is_inverted
                        THEN SwapAt(values, usize_sub(right_index, 1), right_index)
                        ELSE values
             pushed == IF is_inverted THEN Append(frames, swapped) ELSE frames
             has_swapped == has_swapped_in_pass \/ is_inverted
         IN IF right_index = 0
            THEN [values |-> swapped, frames |-> pushed,
                  has_swapped_in_pass |-> has_swapped]
            ELSE CocktailBackward(swapped, pushed, usize_sub(right_index, 1), start_index,
                                  has_swapped)

\* one iteration of: while has_swapped_in_pass (entered with it true)
RECURSIVE CocktailLoop(_, _, _, _)
CocktailLoop(values, frames, start_index, end_index) ==
    LET forward == CocktailForward(values, frames, start_index, end_index, FALSE)
    IN IF ~forward.has_swapped_in_pass \/ end_index = 0
       THEN forward
       ELSE LET backward == CocktailBackward(forward.values, forward.frames,
                                             usize_sub(end_index, 1), start_index, FALSE)
            IN IF start_index + 1 >= usize_sub(end_index, 1)
                  \/ ~backward.has_swapped_in_pass
               THEN backward
               ELSE CocktailLoop(backward.values, backward.frames,
                                 start_index + 1, usize_sub(end_index, 1))

cocktail_sort_with_recording(initial_values) ==
    IF Len(initial_values) = 0
    THEN << >>
    ELSE IF Len(initial_values) <= 1
         THEN PushIfNotLast(<< initial_values >>, initial_values)
         ELSE LET done == CocktailLoop(initial_values, << initial_values >>,
                                       0, usize_sub(Len(initial_values), 1))
              IN PushIfNotLast(done.frames, done.values)

(* ---- comb_sort.rs ------------------------------------------------------ *)
\* the f32 nearest to 1.3 is F32ShrinkNumerator / 2^F32ShrinkShift
F32ShrinkNumerator == 5452595
F32ShrinkShift == 22
F32MantissaBits == 24

RECURSIVE PowerOfTwo(_)
PowerOfTwo(exponent) == IF exponent = 0 THEN 1 ELSE 2 * PowerOfTwo(exponent - 1)

RECURSIVE BitLength(_)
BitLength(n) == IF n = 0 THEN 0 ELSE 1 + BitLength(n \div 2)

\* n with a fraction below one, fraction_is_zero telling whether there is none,
\* rounded to the nearest multiple of unit (a power of two, at least 2), ties to
\* the even multiple
RoundToUnit(n, fraction_is_zero, unit) ==
    LET lower == (n \div unit) * unit
        rest == n - lower
        half == unit \div 2
        up == \/ rest > half
              \/ rest = half /\ ~fraction_is_zero
              \/ rest = half /\ fraction_is_zero /\ (n \div unit) % 2 = 1
    IN IF up THEN lower + unit ELSE lower

\* gap_size as f32: the nearest value with F32MantissaBits significant bits
as_f32(n) ==
    IF BitLength(n) <= F32MantissaBits
    THEN n
    ELSE RoundToUnit(n, TRUE, PowerOfTwo(BitLength(n) - F32MantissaBits))

\* numerator * 2^shift / F32ShrinkNumerator by long division: the quotient's
\* integer part and the remainder
RECURSIVE LongDivision(_, _, _)
LongDivision(quotient, remainder, shift) ==
    IF shift = 0
    THEN [quotient |-> quotient, remainder |-> remainder]
    ELSE IF 2 * remainder >= F32ShrinkNumerator
         THEN LongDivision(2 * quotient + 1, 2 * remainder - F32ShrinkNumerator,
                           shift - 1)
         ELSE LongDivision(2 * quotient, 2 * remainder, shift - 1)

\* (x / shrink_factor) as usize for an f32 x holding an integer: the quotient
\* is rounded to the nearest f32 (ties to even), then the cast drops the fraction
F32DivideByShrinkFactor(x) ==
    LET division == LongDivision(x \div F32ShrinkNumerator,
                                x % F32ShrinkNumerator, F32ShrinkShift)
        whole == division.quotient
        bits == BitLength(whole)
    IN IF whole = 0
       THEN 0
       ELSE IF bits > F32MantissaBits
            THEN RoundToUnit(whole, division.remainder = 0,
                             PowerOfTwo(bits - F32MantissaBits))
            ELSE IF bits = F32MantissaBits
                 THEN IF 2 * division.remainder > F32ShrinkNumerator
                      THEN whole + 1 ELSE whole
                 ELSE \* the f32 values around the quotient are
                      \* 2^(bits - F32MantissaBits) apart: the cast sees
                      \* whole + 1 when the fraction is within half of that of 1
                      IF F32ShrinkNumerator - division.remainder
                             <= F32ShrinkNumerator
                                    \div PowerOfTwo(F32MantissaBits + 1 - bits)
                      THEN whole + 1 ELSE whole

\* ((gap_size as f32) / shrink_factor).floor() as usize, at least 1
ShrinkGap(gap_size) ==
    LET shrunk == F32DivideByShrinkFactor(as_f32(gap_size))
    IN IF shrunk < 1 THEN 1 ELSE shrunk

\* while left_index + gap_size < length
RECURSIVE CombPass(_, _, _, _, _)
CombPass(values, frames, left_index, gap_size, swap_performed_in_pass) ==
    IF left_index + gap_size >= Len(values)
    THEN [values |-> values, frames |-> frames,
          swap_performed_in_pass |-> swap_performed_in_pass]
    ELSE IF At(values, left_index) > At(values, left_index + gap_size)
         THEN LET swapped == SwapAt(values, left_index, left_index + gap_size)
              IN CombPass(swapped, Append(frames, swapped), left_index + 1,
                          gap_size, TRUE)
         ELSE CombPass(values, frames, left_index + 1, gap_size,
                       swap_performed_in_pass)

\* while gap_size > 1 || swap_performed_in_pass
RECURSIVE CombLoop(_, _, _, _)
CombLoop(values, frames, gap_size, swap_performed_in_pass) ==
    IF gap_size > 1 \/ swap_performed_in_pass
    THEN LET pass == CombPass(values, frames, 0, ShrinkGap(gap_size), FALSE)
         IN CombLoop(pass.values, pass.frames, ShrinkGap(gap_size),
                     pass.swap_performed_in_pass)
    ELSE [values |-> values, frames |-> frames]

comb_sort_with_recording(initial_values) ==
    IF Len(initial_values) = 0
    THEN << >>
    ELSE IF Len(initial_values) <= 1
         THEN PushIfNotLast(<< initial_values >>, initial_values)
         ELSE LET done == CombLoop(initial_values, << initial_values >>,
                                   Len(initial_values), TRUE)
              IN PushIfNotLast(done.frames, done.values)

(* ---- shell_sort.rs ----------------------------------------------------- *)
\* while insert_index >= gap_size && values[insert_index - gap_size] > values[insert_index]
RECURSIVE ShellInsert(_, _, _, _)
ShellInsert(values, frames, insert_index, gap_size) ==
    IF insert_index >= gap_size
       /\ At(values, usize_sub(insert_index, gap_size)) > At(values, insert_index)
    THEN LET swapped == SwapAt(values, insert_index, usize_sub(insert_index, gap_size))
         IN ShellInsert(swapped, Append(frames, swapped),
                        usize_sub(insert_index, gap_size), gap_size)
    ELSE [values |-> values, frames |-> frames]

\* while current_index < length
RECURSIVE ShellPass(_, _, _, _)
ShellPass(values, frames, current_index, gap_size) ==
    IF current_index >= Len(values)
    THEN [values |-> values, frames |-> frames]
    ELSE LET inserted == ShellInsert(values, frames, current_index, gap_size)
         IN ShellPass(inserted.values, inserted.frames, current_index + 1, gap_size)

\* while gap_size > 0
RECURSIVE ShellLoop(_, _, _)
ShellLoop(values, frames, gap_size) ==
    IF gap_size <= 0
    THEN [values |-> values, frames |-> frames]
    ELSE LET pass == ShellPass(values, frames, gap_size, gap_size)
         IN ShellLoop(pass.values, pass.frames, gap_size \div 2)

shell_sort_with_recording(initial_values) ==
    IF Len(initial_values) = 0
    THEN << >>
    ELSE LET done == ShellLoop(initial_values, << initial_values >>,
                               Len(initial_values) \div 2)
         IN PushIfNotLast(done.frames, done.values)

(* ---- merge_sort.rs ----------------------------------------------------- *)
\* the three while loops of merge_ranges that fill temporary_values
RECURSIVE MergeTemporary(_, _, _, _, _, _)
MergeTemporary(values, left_index, right_index, middle_index, end_index, temporary_values) ==
    IF left_index < middle_index /\ right_index < end_index
    THEN IF At(values, left_index) <= At(values, right_index)
         THEN MergeTemporary(values, left_index + 1, right_index, middle_index,
                             end_index, Append(temporary_values, At(values, left_index)))
         ELSE MergeTemporary(values, left_index, right_index + 1, middle_index,
                             end_index, Append(temporary_values, At(values, right_index)))
    ELSE IF left_index < middle_index
         THEN MergeTemporary(values, left_index + 1, right_index, middle_index,
                             end_index, Append(temporary_values, At(values, left_index)))
         ELSE IF right_index < end_index
              THEN MergeTemporary(values, left_index, right_index + 1, middle_index,
                                  end_index,
                                  Append(temporary_values, At(values, right_index)))
              ELSE temporary_values

\* for (offset, temporary_value): values[start_index + offset] = temporary_value; push
RECURSIVE MergeWrite(_, _, _, _, _)
MergeWrite(values, frames, start_index, temporary_values, offset) ==
    IF offset >= Len(temporary_values)
    THEN [values |-> values, frames |-> frames]
    ELSE LET written == SetAt(values, start_index + offset, At(temporary_values, offset))
         IN MergeWrite(written, Append(frames, written), start_index,
                       temporary_values, offset + 1)

merge_ranges(values, frames, start_index, middle_index, end_index) ==
    MergeWrite(values, frames, start_index,
               MergeTemporary(values, start_index, middle_index, middle_index,
                              end_index, << >>),
               0)

RECURSIVE merge_sort_recursive(_, _, _, _)
merge_sort_recursive(values, frames, start_index, end_index) ==
    IF saturating_sub(end_index, start_index) <= 1
    THEN [values |-> values, frames |-> frames]
    ELSE LET middle_index == start_index + (usize_sub(end_index, start_index)) \div 2
             left == merge_sort_recursive(values, frames, start_index, middle_index)
             right == merge_sort_recursive(left.values, left.frames,
                                           middle_index, end_index)
         IN merge_ranges(right.values, right.frames, start_index, middle_index,
                         end_index)

merge_sort_with_recording(initial_values) ==
    IF Len(initial_values) = 0
    THEN << >>
    ELSE LET start == [values |-> initial_values, frames |-> << initial_values >>]
             done == IF Len(initial_values) > 1
                     THEN merge_sort_recursive(initial_values, << initial_values >>,
                                               0, Len(initial_values))
                     ELSE start
         IN PushIfNotLast(done.frames, done.values)

(* ---- heap_sort.rs ------------------------------------------------------ *)
RECURSIVE sift_down(_, _, _, _)
sift_down(values, frames, root_index, heap_size) ==
    LET left_child_index == 2 * root_index + 1
        right_child_index == left_child_index + 1
    IN IF left_child_index >= heap_size
       THEN [values |-> values, frames |-> frames]
       ELSE LET left_or_root ==
                    IF At(values, left_child_index) > At(values, root_index)
                    THEN left_child_index ELSE root_index
                index_of_largest ==
                    IF right_child_index < heap_size
                       /\ At(values, right_child_index) > At(values, left_or_root)
                    THEN right_child_index ELSE left_or_root
            IN IF index_of_largest = root_index
               THEN [values |-> values, frames |-> frames]
               ELSE LET swapped == SwapAt(values, root_index, index_of_largest)
                    IN sift_down(swapped, Append(frames, swapped),
                                 index_of_largest, heap_size)

\* build max heap: while heap_index > 0 { heap_index -= 1; sift_down }
RECURSIVE HeapBuild(_, _, _)
HeapBuild(values, frames, heap_index) ==
    IF heap_index <= 0
    THEN [values |-> values, frames |-> frames]
    ELSE LET sifted == sift_down(values, frames, usize_sub(heap_index, 1), Len(values))
         IN HeapBuild(sifted.values, sifted.frames, usize_sub(heap_index, 1))

\* the extraction swapping before unsorted_size is decremented
RECURSIVE HeapExtractBeforeDecrement(_, _, _)
HeapExtractBeforeDecrement(values, frames, unsorted_size) ==
    IF unsorted_size <= 1
    THEN [values |-> values, frames |-> frames]
    ELSE LET swapped == SwapAt(values, 0, unsorted_size)
             sifted == sift_down(swapped, Append(frames, swapped), 0,
                                 usize_sub(unsorted_size, 1))
         IN HeapExtractBeforeDecrement(sifted.values, sifted.frames,
                                       usize_sub(unsorted_size, 1))
\* extract max repeatedly: while unsorted_size > 1
RECURSIVE HeapExtract(_, _, _)
HeapExtract(values, frames, unsorted_size) ==
    IF unsorted_size <= 1
    THEN [values |-> values, frames |-> frames]
    ELSE LET swapped == SwapAt(values, 0, usize_sub(unsorted_size, 1))
             sifted == sift_down(swapped, Append(frames, swapped), 0,
                                 usize_sub(unsorted_size, 1))
         IN HeapExtract(sifted.values, sifted.frames, usize_sub(unsorted_size, 1))

heap_sort_with_recording(initial_values) ==
    IF Len(initial_values) = 0
    THEN << >>
    ELSE LET start == [values |-> initial_values, frames |-> << initial_values >>]
             built == IF Len(initial_values) > 1
                      THEN HeapBuild(initial_values, << initial_values >>,
                                     Len(initial_values) \div 2)
                      ELSE start
             done == HeapExtract(built.values, built.frames, Len(initial_values))
         IN PushIfNotLast(done.frames, done.values)

(* ---- quick_sort.rs ----------------------------------------------------- *)
\* the scan of a partition: for scan_index in low_index..high_index
RECURSIVE PartitionScan(_, _, _, _, _, _)
PartitionScan(values, frames, scan_index, store_index, pivot_index, pivot_value) ==
    IF scan_index >= pivot_index
    THEN [values |-> values, frames |-> frames, store_index |-> store_index]
    ELSE IF At(values, scan_index) < pivot_value
         THEN IF scan_index # store_index
              THEN LET swapped == SwapAt(values, store_index, scan_index)
                   IN PartitionScan(swapped, Append(frames, swapped), scan_index + 1,
                                    store_index + 1, pivot_index, pivot_value)
              ELSE PartitionScan(values, frames, scan_index + 1, store_index + 1,
                                 pivot_index, pivot_value)
         ELSE PartitionScan(values, frames, scan_index + 1, store_index,
                            pivot_index, pivot_value)

partition(values, frames, low_index, high_index) ==
    LET scanned == PartitionScan(values, frames, low_index, low_index, high_index,
                                 At(values, high_index))
    IN IF scanned.store_index # high_index
       THEN LET swapped == SwapAt(scanned.values, scanned.store_index, high_index)
            IN [values |-> swapped, frames |-> Append(scanned.frames, swapped),
                store_index |-> scanned.store_index]
       ELSE scanned

RECURSIVE quick_sort_recursive(_, _, _, _)
quick_sort_recursive(values, frames, low_index, high_index) ==
    IF low_index >= high_index
    THEN [values |-> values, frames |-> frames]
    ELSE LET parted == partition(values, frames, low_index, high_index)
             partition_index == parted.store_index
             left == IF partition_index > 0
                     THEN quick_sort_recursive(parted.values, parted.frames,
                                               low_index, usize_sub(partition_index, 1))
                     ELSE [values |-> parted.values, frames |-> parted.frames]
         IN IF partition_index < high_index
            THEN quick_sort_recursive(left.values, left.frames,
                                      partition_index + 1, high_index)
            ELSE left

quick_sort_with_recording(initial_values) ==
    IF Len(initial_values) = 0
    THEN << >>
    ELSE LET start == [values |-> initial_values, frames |-> << initial_values >>]
             done == IF Len(initial_values) > 1
                     THEN quick_sort_recursive(initial_values, << initial_values >>,
                                               0, usize_sub(Len(initial_values), 1))
                     ELSE start
         IN PushIfNotLast(done.frames, done.values)

(* ---- intro_sort.rs ----------------------------------------------------- *)
\* (length as f64).log2().floor() for length >= 1
RECURSIVE FloorLog2(_)
FloorLog2(length) == IF length <= 1 THEN 0 ELSE 1 + FloorLog2(length \div 2)

\* the budget as the floor of the doubled logarithm: floor(log2(length^2))
DepthLimitOfSquare(length) == FloorLog2(length * length)
\* (2.0 * (length as f64).log2().floor()) as usize
DepthLimit(length) == 2 * FloorLog2(length)

partition_range(values, frames, start_index, end_index) ==
    LET pivot_index == usize_sub(end_index, 1)
        scanned == PartitionScan(values, frames, start_index, start_index,
                                 pivot_index, At(values, pivot_index))
    IN IF scanned.store_index # pivot_index
       THEN LET swapped == SwapAt(scanned.values, scanned.store_index, pivot_index)
            IN [values |-> swapped, frames |-> Append(scanned.frames, swapped),
                store_index |-> scanned.store_index]
       ELSE scanned

\* values[start_index..end_index].clone_from_slice(&segment_state)
SpliceAt(values, start_index, end_index, segment_state) ==
    SubSeq(values, 1, start_index) \o segment_state
        \o SubSeq(values, end_index + 1, Len(values))

\* for (frame_index, segment_state) in local_frames.into_iter().enumerate()
RECURSIVE HeapSortSplice(_, _, _, _, _, _)
HeapSortSplice(values, frames, start_index, end_index, local_frames, frame_index) ==
    IF frame_index >= Len(local_frames)
    THEN [values |-> values, frames |-> frames]
    ELSE LET segment_state == At(local_frames, frame_index)
         IN IF frame_index = 0 \/ Len(segment_state) # usize_sub(end_index, start_index)
            THEN HeapSortSplice(values, frames, start_index, end_index,
                                local_frames, frame_index + 1)
            ELSE LET spliced == SpliceAt(values, start_index, end_index, segment_state)
                 IN HeapSortSplice(spliced, Append(frames, spliced), start_index,
                                   end_index, local_frames, frame_index + 1)

heap_sort_range(values, frames, start_index, end_index) ==
    IF end_index <= start_index
    THEN [values |-> values, frames |-> frames]
    ELSE LET segment == SubSeq(values, start_index + 1, end_index)
             local_frames == heap_sort_with_recording(segment)
         IN HeapSortSplice(values, frames, start_index, end_index, local_frames, 0)

\* history only: one call of intro_sort_recursive and the branch it took
IntroCall(start_index, end_index, depth_limit, branch) ==
    [start_index |-> start_index, end_index |-> end_index,
     depth_limit |-> depth_limit, branch |-> branch]

RECURSIVE intro_sort_recursive(_, _, _, _, _, _)
intro_sort_recursive(values, frames, calls, start_index, end_index, depth_limit) ==
    IF saturating_sub(end_index, start_index) <= 1
    THEN [values |-> values, frames |-> frames,
          calls |-> Append(calls, IntroCall(start_index, end_index, depth_limit,
                                            "return"))]
    ELSE IF depth_limit = 0
         THEN LET heaped == heap_sort_range(values, frames, start_index, end_index)
              IN [values |-> heaped.values, frames |-> heaped.frames,
                  calls |-> Append(calls, IntroCall(start_index, end_index,
                                                    depth_limit, "heap_sort_range"))]
         ELSE LET parted == partition_range(values, frames, start_index, end_index)
                  entered == Append(calls, IntroCall(start_index, end_index,
                                                     depth_limit, "partition_range"))
                  pivot_final_index == parted.store_index
                  left == IF pivot_final_index > start_index
                          THEN intro_sort_recursive(parted.values, parted.frames,
                                                    entered, start_index,
                                                    pivot_final_index, usize_sub(depth_limit, 1))
                          ELSE [values |-> parted.values, frames |-> parted.frames,
                                calls |-> entered]
              IN IF pivot_final_index + 1 < end_index
                 THEN intro_sort_recursive(left.values, left.frames, left.calls,
                                           pivot_final_index + 1, end_index,
                                           usize_sub(depth_limit, 1))
                 ELSE left

\* lines 11-15: the top-level call with its depth budget
IntroSortTop(initial_values) ==
    IF Len(initial_values) > 1
    THEN intro_sort_recursive(initial_values, << initial_values >>, << >>,
                              0, Len(initial_values),
                              DepthLimit(Len(initial_values)))
    ELSE [values |-> initial_values, frames |-> << initial_values >>,
          calls |-> << >>]

intro_sort_with_recording(initial_values) ==
    IF Len(initial_values) = 0
    THEN << >>
    ELSE LET done == IntroSortTop(initial_values)
         IN PushIfNotLast(done.frames, done.values)

(* ---- tim_sort.rs ------------------------------------------------------- *)
MINIMUM_RUN_LENGTH == 32

\* usize::min
MinOf(a, b) == IF a <= b THEN a ELSE b

\* the shift loop moving past equal values as well (>= for >)
RECURSIVE RangeInsertionShiftPastEqual(_, _, _, _, _)
RangeInsertionShiftPastEqual(values, frames, insert_index, start_index, current_value) ==
    IF insert_index > start_index /\ At(values, usize_sub(insert_index, 1)) >= current_value
    THEN LET shifted == SetAt(values, insert_index, At(values, usize_sub(insert_index, 1)))
         IN RangeInsertionShiftPastEqual(shifted, Append(frames, shifted),
                                         usize_sub(insert_index, 1), start_index, current_value)
    ELSE [values |-> values, frames |-> frames, insert_index |-> insert_index]
\* while insert_index > start_index && values[insert_index - 1] > current_value
RECURSIVE RangeInsertionShift(_, _, _, _, _)
RangeInsertionShift(values, frames, insert_index, start_index, current_value) ==
    IF insert_index > start_index /\ At(values, usize_sub(insert_index, 1)) > current_value
    THEN LET shifted == SetAt(values, insert_index, At(values, usize_sub(insert_index, 1)))
         IN RangeInsertionShift(shifted, Append(frames, shifted), usize_sub(insert_index, 1),
                                start_index, current_value)
    ELSE [values |-> values, frames |-> frames, insert_index |-> insert_index]

\* for unsorted_index in (start_index + 1)..end_index
RECURSIVE RangeInsertionOuter(_, _, _, _, _)
RangeInsertionOuter(values, frames, unsorted_index, start_index, end_index) ==
    IF unsorted_index >= end_index
    THEN [values |-> values, frames |-> frames]
    ELSE LET current_value == At(values, unsorted_index)
             shift == RangeInsertionShift(values, frames, unsorted_index,
                                          start_index, current_value)
             placed == SetAt(shift.values, shift.insert_index, current_value)
         IN RangeInsertionOuter(placed, Append(shift.frames, placed),
                                unsorted_index + 1, start_index, end_index)

insertion_sort_range(values, frames, start_index, end_index) ==
    IF end_index <= start_index + 1
    THEN [values |-> values, frames |-> frames]
    ELSE RangeInsertionOuter(values, frames, start_index + 1, start_index, end_index)

\* sort small runs with insertion sort: while start_index < length
RECURSIVE TimRuns(_, _, _, _)
TimRuns(values, frames, start_index, run_length) ==
    IF start_index >= Len(values)
    THEN [values |-> values, frames |-> frames]
    ELSE LET end_index == MinOf(start_index + run_length, Len(values))
             sorted == insertion_sort_range(values, frames, start_index, end_index)
         IN TimRuns(sorted.values, sorted.frames, end_index, run_length)

\* tim_sort.rs has its own copy of merge_ranges, the same code as merge_sort.rs
tim_merge_ranges(values, frames, start_index, middle_index, end_index) ==
    merge_ranges(values, frames, start_index, middle_index, end_index)

\* one pass of merges: while merge_start_index < length
RECURSIVE TimMergePass(_, _, _, _)
TimMergePass(values, frames, merge_start_index, current_run_size) ==
    IF merge_start_index >= Len(values)
    THEN [values |-> values, frames |-> frames]
    ELSE LET middle_index == MinOf(merge_start_index + current_run_size, Len(values))
             merge_end_index ==
                 MinOf(merge_start_index + 2 * current_run_size, Len(values))
         IN IF middle_index >= Len(values)
            THEN [values |-> values, frames |-> frames]
            ELSE LET merged == tim_merge_ranges(values, frames, merge_start_index,
                                                middle_index, merge_end_index)
                 IN TimMergePass(merged.values, merged.frames,
                                 merge_start_index + 2 * current_run_size,
                                 current_run_size)

\* merge runs bottom-up: while current_run_size < length
RECURSIVE TimMergeLoop(_, _, _)
TimMergeLoop(values, frames, current_run_size) ==
    IF current_run_size >= Len(values)
    THEN [values |-> values, frames |-> frames]
    ELSE LET pass == TimMergePass(values, frames, 0, current_run_size)
         IN TimMergeLoop(pass.values, pass.frames, 2 * current_run_size)

tim_sort_with_recording(initial_values) ==
    IF Len(initial_values) = 0
    THEN << >>
    ELSE IF Len(initial_values) <= 1
         THEN PushIfNotLast(<< initial_values >>, initial_values)
         ELSE LET run_length == IF Len(initial_values) < MINIMUM_RUN_LENGTH
                                THEN Len(initial_values)
                                ELSE MINIMUM_RUN_LENGTH
                  runs == TimRuns(initial_values, << initial_values >>, 0, run_length)
                  done == TimMergeLoop(runs.values, runs.frames, run_length)
              IN PushIfNotLast(done.frames, done.values)

(* ---- sorting_algorithms/mod.rs ---------------------------------------- *)
SortingAlgorithmKind ==
    {"BubbleSort", "QuickSort", "InsertionSort", "SelectionSort", "MergeSort",
     "HeapSort", "ShellSort", "IntroSort", "TimSort", "CocktailSort", "CombSort",
     "GnomeSort"}

\* the variants a start_run of the model selects from
SelectableKinds == {"BubbleSort", "InsertionSort"}

display_name(algorithm_kind) ==
    CASE algorithm_kind = "BubbleSort" -> "Bubble Sort"
      [] algorithm_kind = "QuickSort" -> "Quick Sort"
      [] algorithm_kind = "InsertionSort" -> "Insertion Sort"
      [] algorithm_kind = "SelectionSort" -> "Selection Sort"
      [] algorithm_kind = "MergeSort" -> "Merge Sort"
      [] algorithm_kind = "HeapSort" -> "Heap Sort"
      [] algorithm_kind = "ShellSort" -> "Shell Sort"
      [] algorithm_kind = "IntroSort" -> "Intro Sort"
      [] algorithm_kind = "TimSort" -> "Tim Sort"
      [] algorithm_kind = "CocktailSort" -> "Cocktail Shaker Sort"
      [] algorithm_kind = "CombSort" -> "Comb Sort"
      [] algorithm_kind = "GnomeSort" -> "Gnome Sort"

\* the match of SortingAlgorithmReplay::new: the frames the recorder pushed
RecordFrames(algorithm_kind, base_values) ==
    CASE algorithm_kind = "BubbleSort" -> bubble_sort_with_recording(base_values)
      [] algorithm_kind = "QuickSort" -> quick_sort_with_recording(base_values)
      [] algorithm_kind = "InsertionSort" -> insertion_sort_with_recording(base_values)
      [] algorithm_kind = "SelectionSort" -> selection_sort_with_recording(base_values)
      [] algorithm_kind = "MergeSort" -> merge_sort_with_recording(base_values)
      [] algorithm_kind = "HeapSort" -> heap_sort_with_recording(base_values)
      [] algorithm_kind = "ShellSort" -> shell_sort_with_recording(base_values)
      [] algorithm_kind = "IntroSort" -> intro_sort_with_recording(base_values)
      [] algorithm_kind = "TimSort" -> tim_sort_with_recording(base_values)
      [] algorithm_kind = "CocktailSort" -> cocktail_sort_with_recording(base_values)
      [] algorithm_kind = "CombSort" -> comb_sort_with_recording(base_values)
      [] algorithm_kind = "GnomeSort" -> gnome_sort_with_recording(base_values)

\* the replay made of the recorded frames as they are, nothing substituted
ReplayWithoutSubstitute(algorithm_kind, base_values, recorded) ==
    [algorithm_name |-> display_name(algorithm_kind),
     frames |-> recorded,
     stats |-> [total_steps |-> Len(recorded)]]
\* lines 116-130 of SortingAlgorithmReplay::new: the replay made of the frames
\* the recorder pushed. The wall-clock duration of the stats is not modelled;
\* total_steps = frames.len() is.
ReplayOfRecorded(algorithm_kind, base_values, recorded) ==
    LET frames == IF Len(recorded) = 0 THEN << base_values >> ELSE recorded
    IN [algorithm_name |-> display_name(algorithm_kind),
        frames |-> frames,
        stats |-> [total_steps |-> Len(frames)]]

\* SortingAlgorithmReplay::new
SortingAlgorithmReplayNew(algorithm_kind, base_values) ==
    ReplayOfRecorded(algorithm_kind, base_values,
                     RecordFrames(algorithm_kind, base_values))

\* frame_at with the finished flag raised one index late
frame_at_late(replay, frame_index) ==
    LET last_index == saturating_sub(Len(replay.frames), 1)
    IN IF Len(replay.frames) = 0
       THEN << << >>, TRUE >>
       ELSE IF frame_index >= Len(replay.frames)
            THEN << At(replay.frames, last_index), TRUE >>
            ELSE << At(replay.frames, frame_index), frame_index > last_index >>

\* SortingAlgorithmReplay::frame_at: <<frame, is_finished>>
frame_at(replay, frame_index) ==
    LET last_index == saturating_sub(Len(replay.frames), 1)
    IN IF Len(replay.frames) = 0
       THEN << << >>, TRUE >>
       ELSE IF frame_index >= Len(replay.frames)
            THEN << At(replay.frames, last_index), TRUE >>
            ELSE << At(replay.frames, frame_index), frame_index >= last_index >>

stats_snapshot(replay) == replay.stats

(* ---- engine.rs: EngineState, EngineSharedState ------------------------ *)
Idle == [tag |-> "Idle"]
Preparing(algorithms_completed, algorithms_total) ==
    [tag |-> "Preparing",
     algorithms_completed |-> algorithms_completed,
     algorithms_total |-> algorithms_total]
Running == [tag |-> "Running"]

\* the random shuffle of (0..number_of_values): any permutation
Shuffles(number_of_values) ==
    {p \in [1..number_of_values -> 0..(number_of_values - 1)] :
        \A i, j \in 1..number_of_values : i # j => p[i] # p[j]}

\* selected_algorithms: ordered, duplicates allowed
AlgorithmLists ==
    UNION {[1..n -> SelectableKinds] : n \in 0..MaxAlgorithms}

VARIABLES
    engine_state,      \* EngineSharedState.engine_state
    algorithm_states,  \* EngineSharedState.algorithm_states
    lock,              \* the Mutex around EngineSharedState: 0 is unlocked, r is held
                       \* by worker thread r, UiThread by the thread calling update()
    stop_flag,         \* EngineController.stop_flag
    worker_handle,     \* EngineController.worker_handle: 0 is None, r is Some(thread r)
    thread,            \* the worker threads: position and locals of each closure
    ctrl,              \* the thread calling the controller: position in stop()/start_run()
    next_run,          \* the id the next spawned thread gets
    last_writer,       \* history: the thread that wrote the shared state last (0: none)
    write_parity,      \* history: flips at every write to the shared state
    history,           \* history: the values engine_state took since the last spawn
    idle_published,    \* history: the threads that have published Idle
    silenced,          \* history: the threads whose cancelling call has returned
    last_returned,     \* history: the controller call that returned last
    observed_stop,     \* history: the worker spawned last has read the stop flag as set
    cancellation,      \* history: where the worker was when the flag was set, and
                       \* the replays it built and the ticks it published since
    probe              \* a replay built and queried on its own

vars == << engine_state, algorithm_states, lock, stop_flag, worker_handle, thread, ctrl,
           next_run, last_writer, write_parity, history, idle_published, silenced,
           last_returned, observed_stop, cancellation, probe >>

shared == << engine_state, algorithm_states >>
\* what a worker step leaves alone: the controller's fields (and the probe)
controller == << stop_flag, worker_handle, ctrl, next_run, silenced, last_returned,
                 probe >>
publication == << last_writer, write_parity, history, idle_published >>
\* every variable a controller step leaves alone
untouched == << shared, lock, last_writer, write_parity, idle_published, probe >>

\* a thread that was not spawned yet; an exited thread has pc "done" and no locals
NoThread ==
    [pc |-> "unborn", number_of_values |-> 0, selected_algorithms |-> << >>,
     base_values |-> << >>, index |-> 0, algorithm_replays |-> << >>,
     current_step_index |-> 0, all_algorithms_finished |-> FALSE,
     snapshots_for_frame |-> << >>]
Exited == [NoThread EXCEPT !.pc = "done"]

\* the stop flag was not set since the last spawn
NoCancellation == [point |-> "none", builds |-> 0, updates |-> 0]

\* no replay built yet
NoProbe ==
    [stage |-> "none", algorithm_kind |-> "none", base_values |-> << >>,
     recorded |-> << >>, calls |-> << >>, replay |-> << >>, frame_index |-> 0,
     fetched |-> << >>]

Init ==
    /\ engine_state = Idle            \* EngineState::default()
    /\ algorithm_states = << >>       \* EngineSharedState::default()
    /\ lock = 0                       \* Mutex::new
    /\ stop_flag = FALSE
    /\ worker_handle = 0
    /\ thread = [r \in RunIds |-> NoThread]
    /\ ctrl = [pc |-> "idle", joining |-> 0]
    /\ next_run = 1
    /\ last_writer = 0
    /\ write_parity = 0
    /\ history = << Idle >>
    /\ idle_published = {}
    /\ silenced = {}
    /\ last_returned = "none"
    /\ observed_stop = FALSE
    /\ cancellation = NoCancellation
    /\ probe = NoProbe

Alive(r) == thread[r].pc \notin {"unborn", "done"}

\* history only: one more replay built, or one more tick published, by a worker
\* whose stop flag is already set
CountAfterFlag(what) ==
    cancellation' = IF stop_flag
                    THEN [cancellation EXCEPT ![what] = @ + 1]
                    ELSE cancellation

\* history only: where in its closure the worker is when the flag is set
\* (preparation lasts until Preparing{total,total} is published, lines 96-117)
CancellationPoint(t) ==
    CASE t.pc \in {"begin", "begin_publish", "prep_check"} -> "preparation"
      [] t.pc \in {"prep_build", "prep_publish"} ->
             IF t.index + 1 < Len(t.selected_algorithms)
             THEN "preparation" ELSE "last_build"
      [] t.pc \in {"post_prep", "loop_check", "tick", "tick_publish", "sleep",
                   "final"} -> "playback"
      [] OTHER -> "none"

\* the thread calling update(), stop() and start_run(): no worker has its id
UiThread == MaxRuns + 1

\* the critical section of thread r with its guard kept alive after the
\* assignment, so that the lock stays with r
PublishKeepingLock(r, new_engine_state, new_algorithm_states) ==
    /\ lock \in {0, r}
    /\ lock' = r
    /\ engine_state' = new_engine_state
    /\ algorithm_states' = new_algorithm_states
    /\ last_writer' = r
    /\ write_parity' = 1 - write_parity
    /\ history' = IF new_engine_state # Last(history)
                  THEN Append(history, new_engine_state)
                  ELSE history
    /\ idle_published' = IF new_engine_state = Idle
                         THEN idle_published \cup {r}
                         ELSE idle_published
\* one critical section of thread r: lock (or go on with the lock r took in a
\* step of its own, WorkerLock), assign, and drop the guard at the end of the block
Publish(r, new_engine_state, new_algorithm_states) ==
    /\ lock \in {0, r}
    /\ lock' = 0
    /\ engine_state' = new_engine_state
    /\ algorithm_states' = new_algorithm_states
    /\ last_writer' = r
    /\ write_parity' = 1 - write_parity
    /\ history' = IF new_engine_state # Last(history)
                  THEN Append(history, new_engine_state)
                  ELSE history
    /\ idle_published' = IF new_engine_state = Idle
                         THEN idle_published \cup {r}
                         ELSE idle_published

(* ---- the worker closure of start_run ---------------------------------- *)
\* lines 79-83: the base values are made and shuffled, before the lock is
\* asked for (the closure can wait at line 87 while stop() or update() runs)
WorkerShuffle(r) ==
    /\ thread[r].pc = "begin"
    /\ \E base_values \in Shuffles(thread[r].number_of_values) :
          thread' = [thread EXCEPT ![r].base_values = base_values,
                                   ![r].pc = "begin_publish"]
    /\ UNCHANGED << shared, lock, controller, publication, observed_stop,
                    cancellation >>

\* lines 86-92: the block that publishes Preparing{0, total}
WorkerBegin(r) ==
    /\ thread[r].pc = "begin_publish"
    /\ thread' = [thread EXCEPT
          ![r].pc = IF Len(thread[r].selected_algorithms) > 0
                    THEN "prep_check" ELSE "post_prep"]
    /\ Publish(r, Preparing(0, Len(thread[r].selected_algorithms)), algorithm_states)
    /\ UNCHANGED << controller, observed_stop, cancellation >>

\* the preparation loop going on to the build without reading the flag
WorkerPrepCheckDeaf(r) ==
    /\ thread[r].pc = "prep_check"
    /\ thread' = [thread EXCEPT ![r].pc = "prep_build"]
    /\ observed_stop' = observed_stop
    /\ UNCHANGED << shared, lock, controller, publication, cancellation >>
\* line 98: the cancellation check at the top of each preparation iteration
WorkerPrepCheck(r) ==
    /\ thread[r].pc = "prep_check"
    /\ thread' = [thread EXCEPT
          ![r].pc = IF stop_flag THEN "prep_cancel" ELSE "prep_build"]
    /\ observed_stop' = (observed_stop \/ stop_flag)
    /\ UNCHANGED << shared, lock, controller, publication, cancellation >>

\* lines 99-102: cancelled during preparation
WorkerPrepCancel(r) ==
    /\ thread[r].pc = "prep_cancel"
    /\ Publish(r, Idle, << >>)
    /\ thread' = [thread EXCEPT ![r] = Exited]
    /\ UNCHANGED << controller, observed_stop, cancellation >>

\* lines 112-115: the progress published after replay number index was built
PreparingProgressStale(index, algorithms_total) ==
    Preparing(index, algorithms_total)
PreparingProgress(index, algorithms_total) ==
    Preparing(index + 1, algorithms_total)

\* the replay built from what the replay before it left: the recorders sorting
\* the one shared vector in place
WorkerBuildReplayInPlace(r) ==
    /\ thread[r].pc = "prep_build"
    /\ LET t == thread[r]
           base_values == IF Len(t.algorithm_replays) = 0
                          THEN t.base_values
                          ELSE Last(Last(t.algorithm_replays).frames)
           replay == SortingAlgorithmReplayNew(
                         At(t.selected_algorithms, t.index), base_values)
       IN thread' = [thread EXCEPT
              ![r].algorithm_replays = Append(t.algorithm_replays, replay),
              ![r].pc = "prep_publish"]
    /\ CountAfterFlag("builds")
    /\ UNCHANGED << shared, lock, controller, publication, observed_stop >>
\* lines 105-107: the replay is built and pushed, before the lock is asked for
\* (the closure can wait at line 110 while stop() stores the flag)
WorkerBuildReplay(r) ==
    /\ thread[r].pc = "prep_build"
    /\ LET t == thread[r]
           replay == SortingAlgorithmReplayNew(
                         At(t.selected_algorithms, t.index), t.base_values)
       IN thread' = [thread EXCEPT
              ![r].algorithm_replays = Append(t.algorithm_replays, replay),
              ![r].pc = "prep_publish"]
    /\ CountAfterFlag("builds")
    /\ UNCHANGED << shared, lock, controller, publication, observed_stop >>

\* lines 109-116: the block that publishes the progress
WorkerPublishProgress(r) ==
    /\ thread[r].pc = "prep_publish"
    /\ LET t == thread[r]
           algorithms_total == Len(t.selected_algorithms)
       IN /\ thread' = [thread EXCEPT
                ![r].index = t.index + 1,
                ![r].pc = IF t.index + 1 < algorithms_total
                          THEN "prep_check" ELSE "post_prep"]
          /\ Publish(r, PreparingProgress(t.index, algorithms_total), algorithm_states)
    /\ UNCHANGED << controller, observed_stop, cancellation >>

\* nothing was selected, and the closure goes on to the playback all the same
WorkerEmptyFallsThrough(r) ==
    /\ thread[r].pc = "post_prep"
    /\ Len(thread[r].algorithm_replays) = 0
    /\ Publish(r, Running, algorithm_states)
    /\ thread' = [thread EXCEPT ![r].pc = "loop_check"]
    /\ UNCHANGED << controller, observed_stop, cancellation >>
\* lines 119-124: nothing was selected
WorkerEmptySelection(r) ==
    /\ thread[r].pc = "post_prep"
    /\ Len(thread[r].algorithm_replays) = 0
    /\ Publish(r, Idle, << >>)
    /\ thread' = [thread EXCEPT ![r] = Exited]
    /\ UNCHANGED << controller, observed_stop, cancellation >>

\* lines 126-133 with the Running publication left out
WorkerSkipRunning(r) ==
    /\ thread[r].pc = "post_prep"
    /\ Len(thread[r].algorithm_replays) > 0
    /\ thread' = [thread EXCEPT ![r].pc = "loop_check"]
    /\ UNCHANGED << shared, lock, controller, publication, observed_stop, cancellation >>
\* lines 126-133: publish Running before the playback loop
WorkerPublishRunning(r) ==
    /\ thread[r].pc = "post_prep"
    /\ Len(thread[r].algorithm_replays) > 0
    /\ Publish(r, Running, algorithm_states)
    /\ thread' = [thread EXCEPT
          ![r].current_step_index = 0,
          ![r].all_algorithms_finished = FALSE,
          ![r].pc = "loop_check"]
    /\ UNCHANGED << controller, observed_stop, cancellation >>

\* the loop guard reading the flag only: the playback goes on until cancelled
WorkerLoopCheckUntilStopped(r) ==
    /\ thread[r].pc = "loop_check"
    /\ thread' = [thread EXCEPT ![r].pc = IF ~stop_flag THEN "tick" ELSE "final"]
    /\ observed_stop' = (observed_stop \/ stop_flag)
    /\ UNCHANGED << shared, lock, controller, publication, cancellation >>
\* the loop guard reading all_algorithms_finished only
WorkerLoopCheckDeaf(r) ==
    /\ thread[r].pc = "loop_check"
    /\ thread' = [thread EXCEPT
          ![r].pc = IF ~thread[r].all_algorithms_finished THEN "tick" ELSE "final"]
    /\ observed_stop' = observed_stop
    /\ UNCHANGED << shared, lock, controller, publication, cancellation >>
\* line 135: while !stop_flag && !all_algorithms_finished
WorkerLoopCheck(r) ==
    /\ thread[r].pc = "loop_check"
    /\ thread' = [thread EXCEPT
          ![r].pc = IF ~stop_flag /\ ~thread[r].all_algorithms_finished
                    THEN "tick" ELSE "final"]
    /\ observed_stop' = (observed_stop \/ stop_flag)
    /\ UNCHANGED << shared, lock, controller, publication, cancellation >>

\* lines 139-157: one snapshot per replay, in order
SnapshotsAhead(algorithm_replays, current_step_index) ==
    [i \in 1..Len(algorithm_replays) |->
        LET fetched == frame_at(algorithm_replays[i], current_step_index + 1)
        IN [algorithm_name |-> algorithm_replays[i].algorithm_name,
            current_values |-> fetched[1],
            is_finished |-> fetched[2],
            stats |-> stats_snapshot(algorithm_replays[i])]]
\* the snapshots of a tick assembled in the reverse order
SnapshotsReversed(algorithm_replays, current_step_index) ==
    [i \in 1..Len(algorithm_replays) |->
        LET replay == algorithm_replays[Len(algorithm_replays) + 1 - i]
            fetched == frame_at(replay, current_step_index)
        IN [algorithm_name |-> replay.algorithm_name,
            current_values |-> fetched[1],
            is_finished |-> fetched[2],
            stats |-> stats_snapshot(replay)]]
SnapshotsForFrame(algorithm_replays, current_step_index) ==
    [i \in 1..Len(algorithm_replays) |->
        LET fetched == frame_at(algorithm_replays[i], current_step_index)
        IN [algorithm_name |-> algorithm_replays[i].algorithm_name,
            current_values |-> fetched[1],
            is_finished |-> fetched[2],
            stats |-> stats_snapshot(algorithm_replays[i])]]

\* line 159: current_step_index.saturating_add(1); usize::MAX is out of reach
StepIndexStuck(current_step_index) == current_step_index
NextStepIndex(current_step_index) == current_step_index + 1

\* lines 164-168: the engine state published with a tick's snapshots
TickEngineStateSwapped(all_algorithms_finished) ==
    IF all_algorithms_finished THEN Running ELSE Idle
TickEngineState(all_algorithms_finished) ==
    IF all_algorithms_finished THEN Idle ELSE Running

\* lines 136-159: the snapshots of a tick are assembled and the tick counted,
\* before the lock is asked for (the closure can wait at line 161 while stop()
\* or update() runs)
WorkerAssemble(r) ==
    /\ thread[r].pc = "tick"
    /\ LET t == thread[r]
           snapshots_for_frame ==
               SnapshotsForFrame(t.algorithm_replays, t.current_step_index)
       IN thread' = [thread EXCEPT
              ![r].snapshots_for_frame = snapshots_for_frame,
              ![r].all_algorithms_finished =
                  \A i \in 1..Len(snapshots_for_frame) :
                      snapshots_for_frame[i].is_finished,
              ![r].current_step_index = NextStepIndex(t.current_step_index),
              ![r].pc = "tick_publish"]
    /\ UNCHANGED << shared, lock, controller, publication, observed_stop,
                    cancellation >>

\* lines 161-169: the block that publishes the snapshots (moved out of the local)
WorkerPublishTick(r) ==
    /\ thread[r].pc = "tick_publish"
    /\ Publish(r, TickEngineState(thread[r].all_algorithms_finished),
               thread[r].snapshots_for_frame)
    /\ thread' = [thread EXCEPT ![r].snapshots_for_frame = << >>,
                                ![r].pc = "sleep"]
    /\ CountAfterFlag("updates")
    /\ UNCHANGED << controller, observed_stop >>

\* lines 171-174: sleep for the rest of the frame, the lock released
WorkerSleep(r) ==
    /\ thread[r].pc = "sleep"
    /\ thread' = [thread EXCEPT ![r].pc = "loop_check"]
    /\ UNCHANGED << shared, lock, controller, publication, observed_stop, cancellation >>

\* the closure returning after the loop without its last write
WorkerFinalSilent(r) ==
    /\ thread[r].pc = "final"
    /\ thread' = [thread EXCEPT ![r] = Exited]
    /\ UNCHANGED << shared, lock, controller, publication, observed_stop, cancellation >>
\* lines 177-179: the last write, then the thread exits
WorkerFinal(r) ==
    /\ thread[r].pc = "final"
    /\ Publish(r, Idle, algorithm_states)
    /\ thread' = [thread EXCEPT ![r] = Exited]
    /\ UNCHANGED << controller, observed_stop, cancellation >>

WorkerNext ==
    \E r \in RunIds :
        \/ WorkerShuffle(r)
        \/ WorkerBegin(r)
        \/ WorkerPrepCheck(r)
        \/ WorkerPrepCancel(r)
        \/ WorkerBuildReplay(r)
        \/ WorkerPublishProgress(r)
        \/ WorkerEmptySelection(r)
        \/ WorkerPublishRunning(r)
        \/ WorkerLoopCheck(r)
        \/ WorkerAssemble(r)
        \/ WorkerPublishTick(r)
        \/ WorkerSleep(r)
        \/ WorkerFinal(r)

(* ---- EngineController::stop and ::start_run --------------------------- *)
\* line 188: join_handle.join() returns once the thread has exited
JoinSkipped(joined) == TRUE
JoinFinished(joined) == IF joined = 0 THEN TRUE ELSE thread[joined].pc = "done"

\* the flag stored and the handle read but left in place (no take())
BeginStopKeepingHandle(pc) ==
    /\ lock # UiThread
    /\ stop_flag' = TRUE
    /\ ctrl' = [pc |-> pc, joining |-> worker_handle]
    /\ worker_handle' = worker_handle
    /\ cancellation' = IF worker_handle # 0 /\ ~stop_flag
                       THEN [cancellation EXCEPT
                               !.point = CancellationPoint(thread[worker_handle])]
                       ELSE cancellation
\* lines 185-187: store the flag, take the handle (stop, and line 67 of start_run).
\* The caller is past the block in which update() holds the lock (ui.rs 497-500,
\* handle_settings_action is called at 531).
BeginStop(pc) ==
    /\ lock # UiThread
    /\ stop_flag' = TRUE
    /\ ctrl' = [pc |-> pc, joining |-> worker_handle]
    /\ worker_handle' = 0
    /\ cancellation' = IF worker_handle # 0 /\ ~stop_flag
                       THEN [cancellation EXCEPT
                               !.point = CancellationPoint(thread[worker_handle])]
                       ELSE cancellation

\* stop(), up to the join
StopCall ==
    /\ ctrl.pc = "idle"
    /\ BeginStop("stop_join")
    /\ UNCHANGED << untouched, history, observed_stop, thread, next_run, silenced,
                    last_returned >>

\* stop(), from the join to its return
StopReturn ==
    /\ ctrl.pc = "stop_join"
    /\ JoinFinished(ctrl.joining)
    /\ ctrl' = [pc |-> "idle", joining |-> 0]
    /\ silenced' = silenced \cup ({ctrl.joining} \ {0})
    /\ last_returned' = "stop"
    /\ UNCHANGED << untouched, history, observed_stop, cancellation, thread,
                    stop_flag, worker_handle, next_run >>

\* start_run(config), line 67: self.stop() up to the join
StartRunCall ==
    /\ ctrl.pc = "idle"
    /\ next_run <= MaxRuns
    /\ BeginStop("start_join")
    /\ UNCHANGED << untouched, history, observed_stop, thread, next_run, silenced,
                    last_returned >>

\* start_run(config), lines 67-181: the join returns, the flag is cleared, the
\* worker is spawned and its handle kept. config is first read at line 73, after
\* the join, so its value is drawn here.
StartRunSpawnUpTo(most_values) ==
    /\ ctrl.pc = "start_join"
    /\ JoinFinished(ctrl.joining)
    /\ stop_flag' = FALSE
    /\ \E number_of_values \in 0..most_values, selected_algorithms \in AlgorithmLists :
          thread' = [thread EXCEPT ![next_run] =
              [NoThread EXCEPT !.pc = "begin",
                               !.number_of_values = number_of_values,
                               !.selected_algorithms = selected_algorithms]]
    /\ worker_handle' = next_run
    /\ next_run' = next_run + 1
    /\ ctrl' = [pc |-> "idle", joining |-> 0]
    /\ silenced' = silenced \cup ({ctrl.joining} \ {0})
    /\ last_returned' = "start_run"
    /\ history' = << engine_state >>
    /\ observed_stop' = FALSE
    /\ cancellation' = NoCancellation
    /\ UNCHANGED untouched

StartRunSpawn == StartRunSpawnUpTo(MaxValues)

ControllerNext == StopCall \/ StopReturn \/ StartRunCall \/ StartRunSpawn

Next == WorkerNext \/ ControllerNext

Spec == Init /\ [][Next]_vars

\* the same engine given configurations of up to MaxLockstepValues values, for
\* recordings whose lengths differ by more than one
LockstepNext ==
    \/ WorkerNext
    \/ StopCall
    \/ StopReturn
    \/ StartRunCall
    \/ StartRunSpawnUpTo(MaxLockstepValues)

LockstepSpec == Init /\ [][LockstepNext]_vars

(* ---- the lock of the shared state, one step per lock() and per block ---- *)
\* the positions of the closure at which its next statement is
\* shared_state_clone.lock().unwrap() (lines 87, 99, 110, 120, 131, 161, 177)
LockingPcs ==
    {"begin_publish", "prep_cancel", "prep_publish", "post_prep", "tick_publish",
     "final"}

\* lock() returns in thread r: the mutex was free, r holds it now
WorkerLock(r) ==
    /\ thread[r].pc \in LockingPcs
    /\ lock = 0
    /\ lock' = r
    /\ UNCHANGED << shared, controller, publication, observed_stop, cancellation,
                    thread >>

\* the steps of worker r, each lock() and each block a step of its own
LockWorkerStep(r) ==
    \/ WorkerLock(r)
    \/ WorkerShuffle(r)
    \/ WorkerBegin(r)
    \/ WorkerPrepCheck(r)
    \/ WorkerPrepCancel(r)
    \/ WorkerBuildReplay(r)
    \/ WorkerPublishProgress(r)
    \/ WorkerEmptySelection(r)
    \/ WorkerPublishRunning(r)
    \/ WorkerLoopCheck(r)
    \/ WorkerAssemble(r)
    \/ WorkerPublishTick(r)
    \/ WorkerSleep(r)
    \/ WorkerFinal(r)

LockWorkerNext == \E r \in RunIds : LockWorkerStep(r)

\* ui.rs 497-498: update() locks the shared state (the thread is in no
\* controller call: update() calls them later, at 531)
UiLock ==
    /\ ctrl.pc = "idle"
    /\ lock = 0
    /\ lock' = UiThread
    /\ UNCHANGED << shared, controller, publication, observed_stop, cancellation,
                    thread >>

\* ui.rs 499-500: the state is cloned and the guard dropped at the end of the block
UiUnlock ==
    /\ lock = UiThread
    /\ lock' = 0
    /\ UNCHANGED << shared, controller, publication, observed_stop, cancellation,
                    thread >>

UiNext == UiLock \/ UiUnlock

LockNext == LockWorkerNext \/ UiNext \/ ControllerNext

LockSpec == Init /\ [][LockNext]_vars

\* the scheduler runs a live worker, whose lock() is granted in the end however
\* often update() takes the lock in between; update() ends its block; a join
\* returns once its thread exited
FairSpec ==
    /\ LockSpec
    /\ SF_vars(LockWorkerNext)
    /\ WF_vars(UiUnlock)
    /\ WF_vars(StopReturn)
    /\ WF_vars(StartRunSpawn)

(* ---- SortingAlgorithmReplay on its own -------------------------------- *)
\* the inputs a replay is built from: any sequence, duplicates allowed
ProbeInputs == UNION {[1..n -> 0..MaxValues] : n \in 0..MaxValues}

\* SortingAlgorithmReplay::new(algorithm_kind, base_values), base_values drawn
\* from inputs; recorded is what the recorder pushed (frames at line 116). A
\* replay is immutable once constructed, so each behaviour constructs one.
\* calls is history only: the calls of intro_sort_recursive the recorder made.
ProbeBuild(inputs) ==
    /\ probe.stage = "none"
    /\ \E algorithm_kind \in SortingAlgorithmKind, base_values \in inputs :
          LET recorded == RecordFrames(algorithm_kind, base_values)
          IN probe' = [stage |-> "built",
                       algorithm_kind |-> algorithm_kind,
                       base_values |-> base_values,
                       recorded |-> recorded,
                       calls |-> IF algorithm_kind = "IntroSort"
                                 THEN IntroSortTop(base_values).calls
                                 ELSE << >>,
                       replay |-> ReplayOfRecorded(algorithm_kind, base_values,
                                                   recorded),
                       frame_index |-> 0,
                       fetched |-> << >>]
    /\ UNCHANGED << shared, lock, publication, thread, observed_stop, cancellation,
                    stop_flag, worker_handle, ctrl, next_run, silenced,
                    last_returned >>

ProbeNew == ProbeBuild(ProbeInputs)

\* replay.frame_at(frame_index)
ProbeFrameAt ==
    /\ probe.stage \in {"built", "fetched"}
    /\ \E frame_index \in 0..MaxFrameIndex :
          probe' = [probe EXCEPT !.stage = "fetched",
                                 !.frame_index = frame_index,
                                 !.fetched = frame_at(probe.replay, frame_index)]
    /\ UNCHANGED << shared, lock, publication, thread, observed_stop, cancellation,
                    stop_flag, worker_handle, ctrl, next_run, silenced,
                    last_returned >>

ProbeNext == ProbeNew \/ ProbeFrameAt

ReplaySpec == Init /\ [][ProbeNext]_vars

(* ---- the recorders on their own --------------------------------------- *)
\* an input with a value above MaxRecordValue
RecorderExamples == {<< 3, 1, 2 >>}

\* the inputs a recorder is run on: any sequence of unsigned integers
RecorderInputs ==
    UNION {[1..n -> 0..MaxRecordValue] : n \in 0..MaxRecordLength}
        \cup RecorderExamples

\* one recorder run on one input, through SortingAlgorithmReplay::new
RecorderNew == ProbeBuild(RecorderInputs)

RecorderNext == RecorderNew

RecorderSpec == Init /\ [][RecorderNext]_vars

(* ---- properties -------------------------------------------------------- *)
\* a stop() has returned and no controller call was made since
StopReturned == ctrl.pc = "idle" /\ last_returned = "stop"

\* the thread spawned last
LatestRun == next_run - 1

\* the worker spawned last was cancelled while it ran, and nothing wrote after it
CancelledLatest ==
    next_run > 1 /\ observed_stop /\ last_writer = LatestRun

\* thread r writes the shared state in this step
WritesShared(r) == write_parity' # write_parity /\ last_writer' = r

\* C1: after any stop() has returned (no later call begun), the published
\* engine state is Idle.
C1_IdleAfterStop == StopReturned => engine_state = Idle

\* C1 witness: a stop() has returned that cancelled a run in its playback
\* phase (the worker saw the flag, and an unfinished snapshot is still published).
C1_Witness ==
    /\ StopReturned
    /\ engine_state = Idle
    /\ CancelledLatest
    /\ LatestRun \in silenced
    /\ \E i \in 1..Len(algorithm_states) : ~algorithm_states[i].is_finished

\* C2: once a stop() that cancelled a run (in its preparation or in its
\* playback) has returned, the published snapshot list is empty.
C2_SnapshotsEmptyAfterStop ==
    (StopReturned /\ CancelledLatest) => algorithm_states = << >>

\* C3: stop() and the stop inside start_run return only when the worker they
\* joined has exited, and that worker never writes the shared state afterwards.
C3_NoWriteAfterCancel ==
    /\ [](\A r \in silenced : thread[r].pc = "done")
    /\ [][\A r \in silenced : ~WritesShared(r)]_vars

\* C3 witness: a run of two algorithms was cancelled in its preparation (it
\* never reached Running) and the stop() that joined it has returned.
C3_Witness ==
    /\ StopReturned
    /\ CancelledLatest
    /\ LatestRun \in silenced
    /\ history = << Idle, Preparing(0, 2), Preparing(1, 2), Idle >>

\* C4: at every moment at most one worker thread is alive.
C4_OneWorkerAlive == Cardinality({r \in RunIds : Alive(r)}) <= 1

\* C4 witness: worker 1 was cancelled in its playback (its unfinished
\* snapshots are still published) and joined, and start_run has spawned worker 2,
\* which is running.
C4_Witness ==
    /\ 1 \in silenced
    /\ thread[1].pc = "done"
    /\ last_returned = "start_run"
    /\ Alive(2)
    /\ last_writer = 1
    /\ \E i \in 1..Len(algorithm_states) : ~algorithm_states[i].is_finished

\* the engine states an uncancelled run with total algorithms goes through
ExpectedHistory(total) ==
    << Idle >> \o [k \in 1..(total + 1) |-> Preparing(k - 1, total)]
               \o << Running, Idle >>

IsPrefix(s, t) == Len(s) <= Len(t) /\ \A i \in 1..Len(s) : s[i] = t[i]

\* C5: from Idle, an uncancelled run with total >= 1 algorithms makes the
\* published engine state take exactly Preparing{0,total} .. Preparing{total,total},
\* Running, Idle, in that order: always a prefix of it, and all of it at exit.
C5_UncancelledSequence ==
    (next_run > 1 /\ ~stop_flag) =>
        LET t == thread[LatestRun]
            total == Len(t.selected_algorithms)
        IN /\ (t.pc \in {"begin", "begin_publish"}) => (history = << Idle >>)
           /\ (Alive(LatestRun) /\ t.pc \notin {"begin", "begin_publish"}
                 /\ total >= 1)
                => IsPrefix(history, ExpectedHistory(total))
           /\ (t.pc = "done" /\ history[2].algorithms_total >= 1)
                => (history = ExpectedHistory(history[2].algorithms_total))

\* C5 witness: an uncancelled run of two algorithms has exited.
C5_Witness ==
    /\ next_run > 1 /\ ~stop_flag
    /\ thread[LatestRun].pc = "done"
    /\ history = ExpectedHistory(2)

\* the changes of the published engine state the state machine has
AllowedChange(old, new) ==
    \/ old = Idle /\ new.tag = "Preparing" /\ new.algorithms_completed = 0
    \/ /\ old.tag = "Preparing" /\ new.tag = "Preparing"
       /\ new.algorithms_total = old.algorithms_total
       /\ new.algorithms_completed = old.algorithms_completed + 1
    \/ /\ old.tag = "Preparing" /\ new = Running
       /\ old.algorithms_completed = old.algorithms_total
    \/ old = Running /\ new = Idle
    \/ old.tag = "Preparing" /\ new = Idle

\* C6: over any sequence of start_run and stop calls every change of the
\* published engine state is Idle->Preparing{0,total}, Preparing{k}->Preparing{k+1},
\* Preparing{total,total}->Running, Running->Idle or Preparing->Idle, and a
\* thread that has published Idle publishes nothing but Idle afterwards.
C6_AllowedTransitions ==
    [][/\ engine_state' # engine_state => AllowedChange(engine_state, engine_state')
       /\ \A r \in idle_published : WritesShared(r) => engine_state' = Idle]_vars

\* C6 witness: run 1 has ended with Idle and run 2, started after it, has
\* gone from Idle through Preparing to Running.
C6_Witness ==
    /\ 1 \in idle_published
    /\ Alive(2)
    /\ last_writer = 2
    /\ history = << Idle, Preparing(0, 1), Preparing(1, 1), Running >>

\* C7: a published Preparing state has algorithms_completed <= algorithms_total;
\* within a run algorithms_total is the length of the selection and
\* algorithms_completed is the number of replays built so far (a replay just
\* pushed, whose progress block has not run yet, is not counted): it starts at 0
\* and every change of it is an increase by exactly one.
C7_Progress ==
    /\ [](engine_state.tag = "Preparing" =>
            /\ engine_state.algorithms_completed <= engine_state.algorithms_total
            /\ \A r \in RunIds : (Alive(r) /\ last_writer = r) =>
                 /\ engine_state.algorithms_total = Len(thread[r].selected_algorithms)
                 /\ engine_state.algorithms_completed
                      = Len(thread[r].algorithm_replays)
                          - (IF thread[r].pc = "prep_publish" THEN 1 ELSE 0))
    /\ [][(engine_state.tag = "Preparing" /\ engine_state'.tag = "Preparing"
             /\ engine_state' # engine_state) =>
            /\ engine_state'.algorithms_total = engine_state.algorithms_total
            /\ engine_state'.algorithms_completed
                 = engine_state.algorithms_completed + 1]_vars
    /\ [][(engine_state.tag # "Preparing" /\ engine_state'.tag = "Preparing") =>
            engine_state'.algorithms_completed = 0]_vars

\* C7 witness: both replays of a two-algorithm run are built.
C7_Witness ==
    /\ engine_state = Preparing(2, 2)
    /\ \E r \in RunIds : Len(thread[r].algorithm_replays) = 2

\* C8: under fair scheduling every spawned worker exits (a thread never comes
\* back to life, so no worker runs forever iff again and again none is alive),
\* the engine state it wrote last is Idle, and every stop() (and the stop
\* inside start_run) returns.
C8_RunsEnd ==
    /\ []<>(\A r \in RunIds : ~Alive(r))
    /\ []<>(ctrl.pc = "idle")
    /\ [](\A r \in RunIds :
            (thread[r].pc = "done" /\ last_writer = r) => engine_state = Idle)

\* C8 witness: a worker that was cancelled has exited with Idle as its last
\* write and the stop() that joined it has returned.
C8_Witness ==
    /\ StopReturned
    /\ CancelledLatest
    /\ thread[LatestRun].pc = "done"
    /\ engine_state = Idle
    /\ Len(history) >= 4

Min(a, b) == IF a <= b THEN a ELSE b

\* C9: for a replay whose recording has length L >= 1 and any index k,
\* frame_at(k) is frame min(k, L-1), and finished is true exactly when k >= L-1.
C9_FrameAtClamp ==
    probe.stage = "fetched" =>
        LET frames == probe.replay.frames
            L == Len(frames)
            k == probe.frame_index
        IN L >= 1 => probe.fetched = << At(frames, Min(k, L - 1)), k >= L - 1 >>

\* C9 witness: a recording of three frames asked for an index beyond its last:
\* the last frame comes back, which is neither frame 0 nor frame 1.
C9_Witness ==
    /\ probe.stage = "fetched"
    /\ Len(probe.replay.frames) = 3
    /\ probe.frame_index > 3
    /\ probe.fetched = << Last(probe.replay.frames), TRUE >>
    /\ probe.fetched[1] # probe.replay.frames[1]
    /\ probe.fetched[1] # probe.replay.frames[2]

\* the longest recording of a run
RECURSIVE MaxLength(_)
MaxLength(algorithm_replays) ==
    IF Len(algorithm_replays) = 0
    THEN 0
    ELSE LET rest == MaxLength(Tail(algorithm_replays))
             first == Len(Head(algorithm_replays).frames)
         IN IF first >= rest THEN first ELSE rest

\* thread r has published the snapshots of tick current_step_index - 1
HasPublishedTick(r) ==
    /\ thread[r].pc \in {"sleep", "loop_check", "final"}
    /\ thread[r].current_step_index >= 1

\* C10: the snapshot of replay i published at tick t holds frame min(t, L_i-1)
\* with is_finished = (t >= L_i-1); all replays report finished exactly at tick
\* max L_i - 1, which is the last tick published.
C10_Lockstep ==
    \A r \in RunIds : HasPublishedTick(r) =>
        LET replays == thread[r].algorithm_replays
            t == thread[r].current_step_index - 1
            all_finished ==
                \A i \in 1..Len(algorithm_states) : algorithm_states[i].is_finished
        IN /\ Len(algorithm_states) = Len(replays)
           /\ \A i \in 1..Len(replays) :
                LET L == Len(replays[i].frames)
                IN /\ algorithm_states[i].current_values
                        = At(replays[i].frames, Min(t, L - 1))
                   /\ algorithm_states[i].is_finished = (t >= L - 1)
           /\ t <= MaxLength(replays) - 1
           /\ all_finished = (t = MaxLength(replays) - 1)
           /\ all_finished = thread[r].all_algorithms_finished

\* C10 witness: two recordings of lengths L1 < L2 - 1 at tick L1: the first is
\* past its end, holds its last frame and reports finished, while the second is
\* not at its end yet and reports unfinished.
C10_Witness ==
    \E r \in RunIds :
        /\ HasPublishedTick(r)
        /\ Len(thread[r].algorithm_replays) = 2
        /\ LET replays == thread[r].algorithm_replays
               L1 == Len(replays[1].frames)
               L2 == Len(replays[2].frames)
           IN /\ L1 < L2 - 1
              /\ thread[r].current_step_index - 1 = L1
              /\ ~algorithm_states[2].is_finished
              /\ Len(algorithm_states) = 2
              /\ algorithm_states[1].is_finished
              /\ algorithm_states[1].current_values = Last(replays[1].frames)
              /\ algorithm_states[2].current_values = At(replays[2].frames, L1)

(* ---- properties of the recorders --------------------------------------- *)
IsNonDecreasing(values) ==
    \A i \in 1..(Len(values) - 1) : values[i] <= values[i + 1]

\* the number of positions of values that hold v
CountOf(values, v) == Cardinality({i \in 1..Len(values) : values[i] = v})

\* a and b hold the same values with the same multiplicities
SameMultiset(a, b) ==
    /\ Len(a) = Len(b)
    /\ \A i \in 1..Len(a) : CountOf(a, a[i]) = CountOf(b, a[i])

\* a recorder has been run on a non-empty input
RecordedNonEmpty == probe.stage = "built" /\ Len(probe.base_values) >= 1

\* C11: for each of the twelve recorders and every non-empty input (duplicates
\* allowed), the first frame of the recording is the input exactly and the last
\* frame is the input's values in non-decreasing order.
C11_FirstAndLastFrame ==
    RecordedNonEmpty =>
        /\ Len(probe.recorded) >= 1
        /\ probe.recorded[1] = probe.base_values
        /\ IsNonDecreasing(Last(probe.recorded))
        /\ SameMultiset(Last(probe.recorded), probe.base_values)

\* C11 witness: intro sort was run on an unsorted input of six values with a
\* duplicate; its recording starts with the input and ends sorted.
C11_Witness ==
    /\ RecordedNonEmpty
    /\ probe.algorithm_kind = "IntroSort"
    /\ Len(probe.base_values) = 6
    /\ ~IsNonDecreasing(probe.base_values)
    /\ \E i, j \in 1..6 : i # j /\ probe.base_values[i] = probe.base_values[j]
    /\ probe.recorded[1] = probe.base_values
    /\ IsNonDecreasing(Last(probe.recorded))
    /\ Len(probe.recorded) >= 3

\* C12: for each of the twelve recorders and every non-empty input, every frame
\* of the recording is a permutation of the input's multiset of values.
C12_EveryFramePermutation ==
    RecordedNonEmpty =>
        \A i \in 1..Len(probe.recorded) :
            SameMultiset(probe.recorded[i], probe.base_values)

\* the recorders the already-sorted case names
ZeroMutationKinds ==
    {"BubbleSort", "InsertionSort", "SelectionSort", "GnomeSort", "CocktailSort",
     "ShellSort", "MergeSort", "HeapSort", "QuickSort", "TimSort"}

\* C13: for the bubble, insertion, selection, gnome, cocktail, shell, merge,
\* heap, quick and tim sort recorders, a non-decreasing non-empty input yields a
\* recording of length exactly 1.
C13_SortedInputOneFrame ==
    (/\ RecordedNonEmpty
     /\ probe.algorithm_kind \in ZeroMutationKinds
     /\ IsNonDecreasing(probe.base_values))
        => Len(probe.recorded) = 1

\* C14: every replay holds at least one frame, for every algorithm kind and
\* every base input; on empty input the recorder pushes no frame, the replay
\* holds the single frame equal to the empty input, and frame_at(0) returns that
\* frame with finished = true.
C14_ReplayNeverEmpty ==
    probe.stage \in {"built", "fetched"} =>
        /\ Len(probe.replay.frames) >= 1
        /\ probe.base_values = << >> =>
             /\ probe.recorded = << >>
             /\ probe.replay.frames = << probe.base_values >>
             /\ (probe.stage = "fetched" /\ probe.frame_index = 0)
                  => probe.fetched = << << >>, TRUE >>

\* C14 witness: a merge sort replay built from the empty input was asked for
\* frame 0.
C14_Witness ==
    /\ probe.stage = "fetched"
    /\ probe.algorithm_kind = "MergeSort"
    /\ probe.base_values = << >>
    /\ probe.recorded = << >>
    /\ probe.frame_index = 0
    /\ probe.fetched = << << >>, TRUE >>

(* ---- properties of the published state --------------------------------- *)
\* C15: whenever the published engine state is Idle or Preparing, the published
\* snapshot list is empty: snapshots are present only while the state is Running.
C15_SnapshotsOnlyWhileRunning ==
    engine_state.tag \in {"Idle", "Preparing"} => algorithm_states = << >>

\* the worker spawned last was given an empty algorithm list
EmptySelectionAlive ==
    /\ next_run > 1
    /\ Alive(LatestRun)
    /\ thread[LatestRun].selected_algorithms = << >>

\* C16: a start_run whose algorithm list is empty publishes Preparing{0,0}, then
\* an empty snapshot list together with Idle; it never publishes Running or a
\* snapshot, and its worker is never blocked and exits with that last write.
C16_EmptySelection ==
    /\ [](EmptySelectionAlive =>
            /\ thread[LatestRun].pc \in {"begin", "begin_publish", "post_prep"}
            /\ thread[LatestRun].pc \in {"begin", "begin_publish"} =>
                 history = << Idle >>
            /\ thread[LatestRun].pc = "post_prep" =>
                 /\ history = << Idle, Preparing(0, 0) >>
                 /\ ENABLED WorkerEmptySelection(LatestRun))
    /\ []((/\ next_run > 1
           /\ thread[LatestRun].pc = "done"
           /\ Len(history) >= 2
           /\ history[2] = Preparing(0, 0))
            => /\ history = << Idle, Preparing(0, 0), Idle >>
               /\ engine_state = Idle
               /\ algorithm_states = << >>)
    /\ [][(EmptySelectionAlive /\ WritesShared(LatestRun)) =>
            /\ engine_state' \in {Preparing(0, 0), Idle}
            /\ algorithm_states' \in {algorithm_states, << >>}
            /\ engine_state' = Idle =>
                 (algorithm_states' = << >> /\ thread'[LatestRun].pc = "done")]_vars

\* C16 witness: the second run was started with an empty list after a first run
\* had ended; it has published Preparing{0,0} and Idle, has exited, and the list is empty.
C16_Witness ==
    /\ next_run = 3
    /\ 1 \in idle_published
    /\ thread[2].pc = "done"
    /\ last_writer = 2
    /\ history = << Idle, Preparing(0, 0), Idle >>
    /\ engine_state = Idle
    /\ algorithm_states = << >>

\* C17: within one run the base sequence is a permutation of
\* 0 .. number_of_values - 1 and every replay is built from it unmodified, so
\* the snapshots published at tick 0 hold that same sequence for all selected
\* algorithms.
C17_SharedBase ==
    \A r \in RunIds : (Alive(r) /\ thread[r].pc # "begin") =>
        LET t == thread[r]
        IN /\ Len(t.base_values) = t.number_of_values
           /\ \A v \in 0..(t.number_of_values - 1) : CountOf(t.base_values, v) = 1
           /\ \A i \in 1..Len(t.algorithm_replays) :
                t.algorithm_replays[i].frames[1] = t.base_values
           /\ (HasPublishedTick(r) /\ t.current_step_index = 1) =>
                \A i \in 1..Len(t.selected_algorithms) :
                    algorithm_states[i].current_values = t.base_values

\* C17 witness: tick 0 of a run of insertion sort and bubble sort on the base
\* [1, 0]: both snapshots hold [1, 0], and the first replay has ended sorted.
C17_Witness ==
    \E r \in RunIds :
        /\ HasPublishedTick(r)
        /\ thread[r].current_step_index = 1
        /\ thread[r].selected_algorithms = << "InsertionSort", "BubbleSort" >>
        /\ thread[r].base_values = << 1, 0 >>
        /\ Last(thread[r].algorithm_replays[1].frames) = << 0, 1 >>
        /\ Len(algorithm_states) = 2
        /\ algorithm_states[1].current_values = << 1, 0 >>
        /\ algorithm_states[2].current_values = << 1, 0 >>

\* C18: every playback update publishes exactly one snapshot per entry of the
\* configured algorithm list, in the configured order and with duplicate entries
\* kept; snapshot i carries the display name of the i-th selected algorithm.
C18_OneSnapshotPerEntry ==
    \A r \in RunIds : HasPublishedTick(r) =>
        /\ Len(algorithm_states) = Len(thread[r].selected_algorithms)
        /\ \A i \in 1..Len(algorithm_states) :
             algorithm_states[i].algorithm_name
                 = display_name(thread[r].selected_algorithms[i])

\* C18 witness: a tick of a run whose list names bubble sort twice: two
\* snapshots, both named Bubble Sort.
C18_Witness ==
    \E r \in RunIds :
        /\ HasPublishedTick(r)
        /\ thread[r].selected_algorithms = << "BubbleSort", "BubbleSort" >>
        /\ Len(algorithm_states) = 2
        /\ algorithm_states[1].algorithm_name = "Bubble Sort"
        /\ algorithm_states[2].algorithm_name = "Bubble Sort"
        /\ ~algorithm_states[1].is_finished

\* a stop() is waiting to return and found no worker handle to join
NoWorkerStop == ctrl.pc = "stop_join" /\ ctrl.joining = 0

\* C19: stop() called when the controller has no worker (never started, or
\* already stopped) returns without blocking and leaves the published shared
\* state unchanged; a stop() right after a stop() finds no worker and changes
\* nothing at all, so two consecutive calls have the effect of one.
C19_StopWithoutWorker ==
    /\ [](NoWorkerStop =>
            /\ ENABLED StopReturn
            /\ \A r \in RunIds : ~Alive(r))
    /\ [][(ctrl.pc = "idle" /\ worker_handle = 0 /\ ctrl'.pc = "stop_join") =>
            /\ ctrl'.joining = 0
            /\ shared' = shared
            /\ thread' = thread
            /\ worker_handle' = 0]_vars
    /\ [][(NoWorkerStop /\ ctrl'.pc = "idle") =>
            /\ shared' = shared
            /\ thread' = thread
            /\ stop_flag' = stop_flag
            /\ worker_handle' = worker_handle]_vars
    /\ [][(ctrl.pc = "idle" /\ last_returned = "stop" /\ ctrl'.pc = "stop_join") =>
            /\ ctrl'.joining = 0
            /\ shared' = shared
            /\ thread' = thread
            /\ stop_flag' = stop_flag
            /\ worker_handle' = worker_handle]_vars

\* C19 witness: a second stop() is under way right after the stop() that
\* cancelled run 1 in its playback; it found no worker, and the snapshots run 1
\* left are still published.
C19_Witness ==
    /\ NoWorkerStop
    /\ last_returned = "stop"
    /\ 1 \in silenced
    /\ next_run = 2
    /\ engine_state = Idle
    /\ algorithm_states # << >>

\* C20: while a run is in progress (from the publication of its Preparing{0,total}
\* until its final Idle) the published snapshot list holds no snapshot of an
\* earlier run: it is empty until the run's first playback tick, also in the
\* state where Running has been published but no tick yet.
C20_NoEarlierSnapshots ==
    \A r \in RunIds :
        (Alive(r) /\ last_writer = r /\ thread[r].current_step_index = 0)
            => algorithm_states = << >>

\* some published engine state since the last spawn was Running
RunningPublished == \E i \in 1..Len(history) : history[i] = Running

\* the stop flag was set while the worker spawned last was still preparing
CancelledInPreparation == cancellation.point \in {"preparation", "last_build"}

\* C21 as stated: a run whose flag is set before its worker has published
\* Preparing{total,total} never publishes Running and never a snapshot list.
C21_NoPlaybackAfterPreparationCancel ==
    CancelledInPreparation =>
        /\ ~RunningPublished
        /\ cancellation.updates = 0
        /\ thread[LatestRun].pc \notin {"tick", "tick_publish"}

\* C21 amended: a run whose flag is set during preparation never publishes a
\* snapshot list and never enters a playback tick; it never publishes Running
\* either if the flag was set before the build of its last replay began, and if
\* the flag was set during that build, or after it and before the progress of
\* that build was published, it publishes Running after
\* Preparing{total,total} and exits with Idle, so that its engine states are
\* those of an uncancelled run.
C21_PreparationCancel ==
    /\ CancelledInPreparation =>
          /\ cancellation.updates = 0
          /\ thread[LatestRun].pc \notin {"tick", "tick_publish", "sleep"}
    /\ cancellation.point = "preparation" =>
          /\ ~RunningPublished
          /\ thread[LatestRun].pc \notin {"loop_check", "final"}
          /\ thread[LatestRun].pc = "post_prep" =>
                thread[LatestRun].selected_algorithms = << >>
    /\ (cancellation.point = "last_build" /\ thread[LatestRun].pc = "done") =>
          history = ExpectedHistory(history[2].algorithms_total)

\* C21 witness: the flag was set while the second and last replay of a run
\* was being built; the worker published Running, no snapshot, and has exited.
C21_Witness ==
    /\ cancellation.point = "last_build"
    /\ thread[LatestRun].pc = "done"
    /\ history = ExpectedHistory(2)
    /\ cancellation.updates = 0
    /\ algorithm_states = << >>
    /\ silenced = {LatestRun}
\* C22: once the flag is set the worker builds at most one more replay (the
\* one in progress) and publishes at most one more playback update, and the
\* engine state it leaves as its last write is Idle.
C22_BoundedResponse ==
    /\ cancellation.builds <= 1
    /\ cancellation.updates <= 1
    /\ cancellation.point \in {"preparation", "last_build"} => cancellation.updates = 0
    /\ cancellation.point = "playback" => cancellation.builds = 0
    /\ (cancellation.point # "none" /\ thread[LatestRun].pc = "done"
          /\ last_writer = LatestRun) => engine_state = Idle

\* C22 witness: the flag was set between a loop guard and the tick it let
\* through; the worker published that one update (an unfinished snapshot), saw
\* the flag at the next guard and has exited with Idle.
C22_Witness ==
    /\ cancellation = [point |-> "playback", builds |-> 0, updates |-> 1]
    /\ observed_stop
    /\ thread[LatestRun].pc = "done"
    /\ last_writer = LatestRun
    /\ engine_state = Idle
    /\ \E i \in 1..Len(algorithm_states) : ~algorithm_states[i].is_finished
\* C23: a run that is not cancelled publishes exactly max L_i playback
\* updates, for the ticks 0 .. max L_i - 1 in order; every update but the last
\* carries Running and the last carries Idle together with the snapshots in which
\* every algorithm is finished; with value count 0 that is exactly one update.
C23_UncancelledPlayback ==
    /\ [](\A r \in RunIds :
            LET t == thread[r]
                longest == MaxLength(t.algorithm_replays)
            IN /\ t.pc = "tick" => t.current_step_index < longest
               /\ t.pc = "tick_publish" =>
                     /\ t.current_step_index \in 1..longest
                     /\ t.all_algorithms_finished
                           = (t.current_step_index = longest)
               /\ HasPublishedTick(r) =>
                     /\ last_writer = r
                     /\ engine_state = IF t.current_step_index = longest
                                       THEN Idle ELSE Running
               /\ (t.pc = "final" /\ ~stop_flag) =>
                     /\ t.current_step_index = longest
                     /\ engine_state = Idle
                     /\ Len(algorithm_states) = Len(t.algorithm_replays)
                     /\ \A i \in 1..Len(algorithm_states) :
                           algorithm_states[i].is_finished
               /\ (t.pc \in {"loop_check", "tick", "tick_publish", "sleep", "final"}
                     /\ t.number_of_values = 0) => longest = 1)
    /\ [][\A r \in RunIds :
            /\ (thread[r].pc = "post_prep" /\ thread'[r].pc = "loop_check") =>
                  thread'[r].current_step_index = 0
            /\ (thread[r].pc = "tick" /\ thread'[r].pc # "tick") =>
                  /\ thread'[r].pc = "tick_publish"
                  /\ ~WritesShared(r)
                  /\ thread'[r].current_step_index
                        = thread[r].current_step_index + 1
            /\ (thread[r].pc = "tick_publish" /\ thread'[r].pc # "tick_publish") =>
                  /\ thread'[r].pc = "sleep"
                  /\ WritesShared(r)
                  /\ thread'[r].current_step_index = thread[r].current_step_index
            /\ (thread[r].pc \in {"loop_check", "sleep"}
                  /\ thread[r].current_step_index > 0) => ~WritesShared(r)]_vars

\* C23 witness: an uncancelled run of two algorithms whose recordings have the
\* lengths 2 and 3 has published its third and last update, with Idle.
C23_Witness ==
    /\ next_run > 1
    /\ ~stop_flag
    /\ thread[LatestRun].pc = "final"
    /\ Len(thread[LatestRun].algorithm_replays) = 2
    /\ Len(thread[LatestRun].algorithm_replays[1].frames) = 2
    /\ Len(thread[LatestRun].algorithm_replays[2].frames) = 3
    /\ thread[LatestRun].current_step_index = 3
    /\ engine_state = Idle
    /\ history = ExpectedHistory(2)
\* the intro sort recorder has been run on an input of two or more values
IntroRecorded ==
    /\ probe.stage = "built"
    /\ probe.algorithm_kind = "IntroSort"
    /\ Len(probe.base_values) >= 2

\* call i of the trace lies inside the range of call j
CallInside(calls, i, j) ==
    /\ calls[j].start_index <= calls[i].start_index
    /\ calls[i].end_index <= calls[j].end_index

\* the call that made call i: the last one before it whose range holds its range
ParentCall(calls, i) ==
    CHOOSE j \in 1..(i - 1) :
        /\ CallInside(calls, i, j)
        /\ \A k \in (j + 1)..(i - 1) : ~CallInside(calls, i, k)

\* below the top-level call the budget decreases by one per partitioning level,
\* and a range of two or more values goes to heap_sort_range exactly at budget 0
BudgetSpent(calls) ==
    /\ \A i \in 2..Len(calls) :
          /\ \E j \in 1..(i - 1) : CallInside(calls, i, j)
          /\ calls[ParentCall(calls, i)].branch = "partition_range"
          /\ calls[ParentCall(calls, i)].depth_limit = calls[i].depth_limit + 1
    /\ \A i \in 1..Len(calls) :
          IF calls[i].end_index - calls[i].start_index >= 2
          THEN (calls[i].branch = "heap_sort_range") = (calls[i].depth_limit = 0)
          ELSE calls[i].branch = "return"

\* C24 as stated: the top-level depth budget of intro sort on n >= 2 values is
\* floor(2*log2(n)), the largest d with 2^d <= n^2 (3 for n = 3, 5 for n = 6); it
\* decreases by one per partitioning level and a range of two or more values is
\* handed to the heap-sort splice exactly when its budget is 0.
C24_DepthBudgetFloorOfDouble ==
    IntroRecorded =>
        LET n == Len(probe.base_values)
            calls == probe.calls
            d == calls[1].depth_limit
        IN /\ calls[1].start_index = 0 /\ calls[1].end_index = n
           /\ 2^d <= n * n /\ n * n < 2^(d + 1)
           /\ n = 3 => d = 3
           /\ n = 6 => d = 5
           /\ BudgetSpent(calls)

\* C24 amended: the top-level depth budget is 2*floor(log2(n)), twice the
\* largest k with 2^k <= n (2 for n = 3, 4 for n = 6); it decreases by one per
\* partitioning level and a range of two or more values is handed to the
\* heap-sort splice exactly when its budget is 0.
C24_DepthBudgetTwiceFloor ==
    IntroRecorded =>
        LET n == Len(probe.base_values)
            calls == probe.calls
            d == calls[1].depth_limit
        IN /\ calls[1].start_index = 0 /\ calls[1].end_index = n
           /\ d % 2 = 0
           /\ 2^(d \div 2) <= n /\ n < 2^((d \div 2) + 1)
           /\ n = 3 => d = 2
           /\ n = 6 => d = 4
           /\ BudgetSpent(calls)

\* C24 witness: intro sort on six values started with budget 4, spent it on
\* four partitioning levels and handed a range of two values to heap_sort_range.
C24_Witness ==
    /\ IntroRecorded
    /\ Len(probe.base_values) = 6
    /\ probe.calls[1].depth_limit = 4
    /\ \E i \in 1..Len(probe.calls) :
          /\ probe.calls[i].branch = "heap_sort_range"
          /\ probe.calls[i].depth_limit = 0
          /\ probe.calls[i].end_index - probe.calls[i].start_index = 2
\* the number of pairs of positions of values that are out of order
Inversions(values) ==
    Cardinality({pair \in (1..Len(values)) \X (1..Len(values)) :
                    pair[1] < pair[2] /\ values[pair[1]] > values[pair[2]]})

\* C25: insertion sort, and the run-sorting of tim sort (one run up to
\* MINIMUM_RUN_LENGTH values), append one frame per single-element shift and none
\* for the final placement: after the initial frame, an input with k inversions
\* contributes exactly k frames.
C25_OneFramePerShift ==
    (RecordedNonEmpty /\ probe.algorithm_kind \in {"InsertionSort", "TimSort"})
        => Len(probe.recorded) = 1 + Inversions(probe.base_values)
\* frame b is frame a with the values at two positions exchanged, the larger
\* one moving to the right; for adjacent, the two positions are neighbours
IsSwapOf(a, b, adjacent) ==
    /\ Len(a) = Len(b)
    /\ \E i, j \in 1..Len(a) :
          /\ i < j
          /\ adjacent => j = i + 1
          /\ a[i] > a[j]
          /\ b = [k \in 1..Len(a) |->
                    IF k = i THEN a[j] ELSE IF k = j THEN a[i] ELSE a[k]]

\* C26: bubble sort and selection sort emit the initial frame and then exactly
\* one frame per swap, each frame being the one before it with two values
\* exchanged (neighbours in bubble sort); the bubble sort recording has length
\* 1 + the number of inversions of the input; on [3,1,2] both recordings are
\* [[3,1,2],[1,3,2],[1,2,3]].
C26_OneFramePerSwap ==
    (RecordedNonEmpty /\ probe.algorithm_kind \in {"BubbleSort", "SelectionSort"}) =>
        /\ probe.recorded[1] = probe.base_values
        /\ \A i \in 1..(Len(probe.recorded) - 1) :
              IsSwapOf(probe.recorded[i], probe.recorded[i + 1],
                       probe.algorithm_kind = "BubbleSort")
        /\ IsNonDecreasing(Last(probe.recorded))
        /\ probe.algorithm_kind = "BubbleSort" =>
              Len(probe.recorded) = 1 + Inversions(probe.base_values)
        /\ probe.base_values = << 3, 1, 2 >> =>
              probe.recorded = << << 3, 1, 2 >>, << 1, 3, 2 >>, << 1, 2, 3 >> >>

\* C26 witness: selection sort was run on [3,1,2] and recorded the initial
\* frame and one frame for each of its two swaps.
C26_Witness ==
    /\ RecordedNonEmpty
    /\ probe.algorithm_kind = "SelectionSort"
    /\ probe.base_values = << 3, 1, 2 >>
    /\ probe.recorded = << << 3, 1, 2 >>, << 1, 3, 2 >>, << 1, 2, 3 >> >>
\* C27: in every recording of each of the twelve recorders, for every input,
\* no two consecutive frames are equal.
C27_NoEqualConsecutiveFrames ==
    RecordedNonEmpty =>
        \A i \in 1..(Len(probe.recorded) - 1) :
            probe.recorded[i] # probe.recorded[i + 1]

\* C28: on an input of at most MINIMUM_RUN_LENGTH values (one run, no merge
\* pass) the tim sort recorder produces exactly the frames of the insertion sort
\* recorder.
C28_TimIsInsertionOnOneRun ==
    (/\ probe.stage = "built"
     /\ probe.algorithm_kind = "TimSort"
     /\ Len(probe.base_values) <= MINIMUM_RUN_LENGTH)
        => probe.recorded = insertion_sort_with_recording(probe.base_values)

\* C28 witness: tim sort was run on six values with duplicates and inversions;
\* its frames, shifts and placements, are those of insertion sort.
C28_Witness ==
    /\ RecordedNonEmpty
    /\ probe.algorithm_kind = "TimSort"
    /\ Len(probe.base_values) = 6
    /\ Inversions(probe.base_values) >= 3
    /\ \E i, j \in 1..6 : i # j /\ probe.base_values[i] = probe.base_values[j]
    /\ Len(probe.recorded) = 6 + Inversions(probe.base_values)
    /\ probe.recorded = insertion_sort_with_recording(probe.base_values)
\* the values a vector holds
ValuesOf(values) == {values[k] : k \in 1..Len(values)}

\* C30: each of the twelve recorders returns on every input, of length 0, 1,
\* 2 and more, with duplicates, without an index out of the array and without
\* an index below zero: a recording comes back, every frame of it has the
\* length of the input and holds values of the input only (no write panicked),
\* the empty input gives the empty recording and one value gives its one frame.
\* A read out of the array or a subtraction below zero has no value, and no
\* recording would come back.
C30_RecordersTotal ==
    probe.stage = "built" =>
        /\ probe.recorded \in Seq(Seq(Nat))
        /\ \A i \in 1..Len(probe.recorded) :
              /\ Len(probe.recorded[i]) = Len(probe.base_values)
              /\ ~IsPanicked(probe.recorded[i])
              /\ ValuesOf(probe.recorded[i]) \subseteq ValuesOf(probe.base_values)
        /\ Len(probe.base_values) = 0 => probe.recorded = << >>
        /\ Len(probe.base_values) = 1 => probe.recorded = << probe.base_values >>
        /\ Len(probe.base_values) >= 1 => Len(probe.recorded) >= 1

\* C30 witness: quick sort was run on two values whose partition leaves the
\* pivot at index 0, where partition_index - 1 would be below zero; the
\* recording came back.
C30_Witness ==
    /\ probe.stage = "built"
    /\ probe.algorithm_kind = "QuickSort"
    /\ probe.base_values = << 1, 0 >>
    /\ probe.recorded = << << 1, 0 >>, << 0, 1 >> >>
\* C29: the lock of the shared state is never held by a thread that is
\* sleeping, building a recording or assembling snapshots, or blocked in join:
\* the worker holds it only from a lock() to the end of the block, in which it
\* replaces the state once; the consumer holds it only for its clone and has
\* released it before it calls stop() or start_run(), which never lock; so no
\* thread waits for a thread that waits for it: a live worker can always take a
\* step, or waits for the lock while the consumer can release it, and a caller
\* blocked in join waits for a worker that can take a step.
C29_LockDiscipline ==
    /\ [](/\ \A r \in RunIds : lock = r => thread[r].pc \in LockingPcs
          /\ lock = UiThread => ctrl.pc = "idle"
          /\ lock \in {0, UiThread} \cup {r \in RunIds : Alive(r)})
    /\ [][\A r \in RunIds : (lock = r /\ thread'[r] # thread[r]) =>
            (lock' = 0 /\ WritesShared(r))]_vars
    /\ [][(lock = UiThread /\ lock' # lock) =>
            (lock' = 0 /\ shared' = shared /\ thread' = thread /\ ctrl' = ctrl)]_vars
    /\ [][ctrl' # ctrl =>
            (lock # UiThread /\ lock' = lock /\ shared' = shared)]_vars
    /\ [](/\ \A r \in RunIds : Alive(r) =>
               \/ ENABLED LockWorkerStep(r)
               \/ lock = UiThread /\ ENABLED UiUnlock
          /\ ctrl.pc = "stop_join" =>
               \/ ENABLED StopReturn
               \/ Alive(ctrl.joining) /\ ENABLED LockWorkerStep(ctrl.joining)
          /\ ctrl.pc = "start_join" =>
               \/ ENABLED StartRunSpawn
               \/ Alive(ctrl.joining) /\ ENABLED LockWorkerStep(ctrl.joining))

\* C29 witness: stop() is blocked in join while the worker it joined holds
\* the lock in the block that publishes a tick.
C29_Witness ==
    /\ ctrl.pc = "stop_join"
    /\ ctrl.joining \in RunIds
    /\ thread[ctrl.joining].pc = "tick_publish"
    /\ lock = ctrl.joining
    /\ stop_flag
====
